---- MODULE Spec2Model ----
(***************************************************************************)
(* A model of github.com/bit-cmdr/ruadan: GetConfigFlagSet binds the       *)
(* fields of a configuration record to environment variables and to        *)
(* command-line flags; BuildConfig synthesises such a record from options. *)
(*                                                                         *)
(* A string is a sequence of one-character strings, so that upper-casing,  *)
(* trimming, splitting and number parsing are computed character by        *)
(* character as the Go code and its standard library compute them.         *)
(* The record lives in a byte-addressed heap, because the code binds every *)
(* flag through unsafe.Pointer casts of the field's address.               *)
(***************************************************************************)
EXTENDS Integers, Sequences, FiniteSets, TLC

\* ------------------------------------------------------------------------
\* Characters and strings (package strings, as ruadan.go calls it)
\* ------------------------------------------------------------------------

LowerCase == <<"a","b","c","d","e","f","g","h","i","j","k","l","m",
               "n","o","p","q","r","s","t","u","v","w","x","y","z">>

UpperCase == <<"A","B","C","D","E","F","G","H","I","J","K","L","M",
               "N","O","P","Q","R","S","T","U","V","W","X","Y","Z">>

Digits == <<"0","1","2","3","4","5","6","7","8","9">>

IndexIn(c, alphabet) ==
    IF \E i \in DOMAIN alphabet : alphabet[i] = c
    THEN CHOOSE i \in DOMAIN alphabet : alphabet[i] = c
    ELSE 0

IsLower(c) == IndexIn(c, LowerCase) # 0

IsUpper(c) == IndexIn(c, UpperCase) # 0

ToUpperCh(c) == IF IsLower(c) THEN UpperCase[IndexIn(c, LowerCase)] ELSE c

ToLowerCh(c) == IF IsUpper(c) THEN LowerCase[IndexIn(c, UpperCase)] ELSE c

\* strings.ToUpper
ToUpper(s) == [i \in DOMAIN s |-> ToUpperCh(s[i])]

\* strings.ToLower
ToLower(s) == [i \in DOMAIN s |-> ToLowerCh(s[i])]

\* unicode.IsSpace on the characters of the model's alphabet
IsSpace(c) == c \in {" ", "\t", "\n"}

RECURSIVE TrimLeft(_)
TrimLeft(s) ==
    IF s # <<>> /\ IsSpace(Head(s)) THEN TrimLeft(Tail(s)) ELSE s

RECURSIVE TrimRight(_)
TrimRight(s) ==
    IF s # <<>> /\ IsSpace(s[Len(s)])
    THEN TrimRight(SubSeq(s, 1, Len(s) - 1))
    ELSE s

\* strings.TrimSpace
TrimSpace(s) == TrimRight(TrimLeft(s))

\* strings.Split(s, ",") : never empty, one more element than separators
RECURSIVE Split(_, _)
Split(s, sep) ==
    IF \E i \in DOMAIN s : s[i] = sep
    THEN LET i == CHOOSE k \in DOMAIN s :
                      s[k] = sep /\ \A j \in 1..(k - 1) : s[j] # sep
         IN  <<SubSeq(s, 1, i - 1)>> \o Split(SubSeq(s, i + 1, Len(s)), sep)
    ELSE <<s>>

\* strings.ContainsAny(s, chars)
Contains(s, c) == \E i \in DOMAIN s : s[i] = c

\* the byte of a character of the model's alphabet
CharCode(c) ==
    IF IndexIn(c, Digits) # 0 THEN 47 + IndexIn(c, Digits)
    ELSE IF IsUpper(c) THEN 64 + IndexIn(c, UpperCase)
    ELSE IF IsLower(c) THEN 96 + IndexIn(c, LowerCase)
    ELSE IF c = " " THEN 32
    ELSE IF c = "," THEN 44
    ELSE IF c = "-" THEN 45
    ELSE IF c = "." THEN 46
    ELSE IF c = "=" THEN 61
    ELSE IF c = "_" THEN 95
    ELSE 63

\* []byte(s)
Bytes(s) == [i \in DOMAIN s |-> CharCode(s[i])]

\* ------------------------------------------------------------------------
\* Naming normaliser
\* ------------------------------------------------------------------------

\* snakify: strings.ReplaceAll(s, " ", "_")
snakify(s) == [i \in DOMAIN s |-> IF s[i] = " " THEN "_" ELSE s[i]]

\* envify: strings.ToUpper(snakify(strings.TrimSpace(s)))
envify(s) == ToUpper(snakify(TrimSpace(s)))

\* the loop of jsonify: pr is the previous rune
RECURSIVE jsonifyLoop(_, _)
jsonifyLoop(str, pr) ==
    IF str = <<>> THEN <<>>
    ELSE LET r == Head(str)
             out == IF pr = "_" THEN <<ToUpperCh(r)>>
                    ELSE IF r # "_" THEN <<r>>
                    ELSE <<>>
         IN  out \o jsonifyLoop(Tail(str), r)

jsonify(s) ==
    LET str == ToLower(snakify(TrimSpace(s)))
    IN  IF ~Contains(str, "_") THEN str ELSE jsonifyLoop(str, "")

\* ------------------------------------------------------------------------
\* Package strconv and time.ParseDuration, as ruadan.go and package flag
\* call them.  A result is [v |-> value, err |-> "nil" | "syntax" | "range"].
\* Numerals of the model stay below 2^31, the integers TLC computes with.
\* ------------------------------------------------------------------------

Pow2(n) == 2 ^ n

\* the largest value of an unsigned integer of bitSize bits
MaxUintOf(bitSize) == IF bitSize <= 16 THEN Pow2(bitSize) - 1 ELSE 2147483647

\* strconv.ParseBool
ParseBool(s) ==
    IF s \in { <<"1">>, <<"t">>, <<"T">>, <<"t","r","u","e">>,
               <<"T","R","U","E">>, <<"T","r","u","e">> }
    THEN [v |-> TRUE, err |-> "nil"]
    ELSE IF s \in { <<"0">>, <<"f">>, <<"F">>, <<"f","a","l","s","e">>,
                    <<"F","A","L","S","E">>, <<"F","a","l","s","e">> }
    THEN [v |-> FALSE, err |-> "nil"]
    ELSE [v |-> FALSE, err |-> "syntax"]

\* the value of a digit character in ParseUint, 99 when it is none
DigitVal(c) ==
    IF IndexIn(c, Digits) # 0 THEN IndexIn(c, Digits) - 1
    ELSE IF IndexIn(ToLowerCh(c), LowerCase) # 0
    THEN IndexIn(ToLowerCh(c), LowerCase) + 9
    ELSE 99

\* strconv.underscoreOK, the loop: saw is "^", "0", "_" or "!"
RECURSIVE underscoreLoop(_, _, _)
underscoreLoop(s, saw, hex) ==
    IF s = <<>> THEN saw # "_"
    ELSE LET c == Head(s)
         IN  IF IndexIn(c, Digits) # 0
                \/ (hex /\ DigitVal(c) >= 10 /\ DigitVal(c) <= 15)
             THEN underscoreLoop(Tail(s), "0", hex)
             ELSE IF c = "_"
             THEN saw = "0" /\ underscoreLoop(Tail(s), "_", hex)
             ELSE saw # "_" /\ underscoreLoop(Tail(s), "!", hex)

\* strconv.underscoreOK
underscoreOK(s0) ==
    LET s == IF s0 # <<>> /\ Head(s0) \in {"-", "+"} THEN Tail(s0) ELSE s0
        pre == Len(s) >= 2 /\ s[1] = "0" /\ ToLowerCh(s[2]) \in {"b", "o", "x"}
    IN  IF pre
        THEN underscoreLoop(SubSeq(s, 3, Len(s)), "0", ToLowerCh(s[2]) = "x")
        ELSE underscoreLoop(s, "^", FALSE)

\* the digit loop of strconv.ParseUint: n is the value so far
RECURSIVE parseDigits(_, _, _, _, _)
parseDigits(s, base, base0, maxVal, n) ==
    IF s = <<>> THEN [v |-> n, err |-> "nil"]
    ELSE LET c == Head(s)
             d == DigitVal(c)
         IN  IF c = "_" /\ base0
             THEN parseDigits(Tail(s), base, base0, maxVal, n)
             ELSE IF d >= base THEN [v |-> 0, err |-> "syntax"]
             ELSE IF n * base + d > maxVal THEN [v |-> maxVal, err |-> "range"]
             ELSE parseDigits(Tail(s), base, base0, maxVal, n * base + d)

\* strconv.ParseUint(s, base, bitSize) for base 0 and base 10
ParseUint(s, base, bitSize) ==
    IF s = <<>> THEN [v |-> 0, err |-> "syntax"]
    ELSE LET base0 == base = 0
             pre == base0 /\ s[1] = "0"
             b == IF ~pre THEN (IF base0 THEN 10 ELSE base)
                  ELSE IF Len(s) >= 3 /\ ToLowerCh(s[2]) = "b" THEN 2
                  ELSE IF Len(s) >= 3 /\ ToLowerCh(s[2]) = "o" THEN 8
                  ELSE IF Len(s) >= 3 /\ ToLowerCh(s[2]) = "x" THEN 16
                  ELSE 8
             rest == IF ~pre THEN s
                     ELSE IF Len(s) >= 3 /\ ToLowerCh(s[2]) \in {"b", "o", "x"}
                     THEN SubSeq(s, 3, Len(s))
                     ELSE Tail(s)
             checked(r) ==
                 IF r.err = "nil" /\ base0 /\ Contains(rest, "_") /\ ~underscoreOK(s)
                 THEN [v |-> 0, err |-> "syntax"]
                 ELSE r
         IN  checked(parseDigits(rest, b, base0, MaxUintOf(bitSize), 0))

\* strconv.ParseInt(s, base, bitSize)
ParseInt(s, base, bitSize) ==
    IF s = <<>> THEN [v |-> 0, err |-> "syntax"]
    ELSE LET neg == Head(s) = "-"
             body == IF Head(s) \in {"+", "-"} THEN Tail(s) ELSE s
             cutoff == IF bitSize <= 16 THEN Pow2(bitSize - 1) ELSE 2147483647
             signed(un) ==
                 IF un.err = "syntax" THEN [v |-> 0, err |-> "syntax"]
                 ELSE IF ~neg /\ (un.err = "range" \/ un.v >= cutoff) /\ bitSize <= 16
                 THEN [v |-> cutoff - 1, err |-> "range"]
                 ELSE IF neg /\ (un.err = "range" \/ un.v > cutoff) /\ bitSize <= 16
                 THEN [v |-> 0 - cutoff, err |-> "range"]
                 ELSE [v |-> IF neg THEN 0 - un.v ELSE un.v, err |-> "nil"]
         IN  signed(ParseUint(body, base, bitSize))

\* nanoseconds of a unit of time.ParseDuration, 0 when it is no unit
\* (hours and minutes exceed the model's integers and are left out)
UnitNanos(u) ==
    IF u = <<"n","s">> THEN 1
    ELSE IF u = <<"u","s">> THEN 1000
    ELSE IF u = <<"m","s">> THEN 1000000
    ELSE IF u = <<"s">> THEN 1000000000
    ELSE 0

\* the longest prefix of s made of decimal digits
RECURSIVE LeadingDigits(_)
LeadingDigits(s) ==
    IF s # <<>> /\ IndexIn(Head(s), Digits) # 0
    THEN <<Head(s)>> \o LeadingDigits(Tail(s))
    ELSE <<>>

\* the longest prefix of s that holds neither a digit nor a dot
RECURSIVE LeadingUnit(_)
LeadingUnit(s) ==
    IF s # <<>> /\ IndexIn(Head(s), Digits) = 0 /\ Head(s) # "."
    THEN <<Head(s)>> \o LeadingUnit(Tail(s))
    ELSE <<>>

\* the loop of time.ParseDuration over "<digits><unit>" groups (whole
\* numbers only): d is the nanoseconds so far
RECURSIVE durationLoop(_, _)
durationLoop(s, d) ==
    IF s = <<>> THEN [v |-> d, err |-> "nil"]
    ELSE LET ds == LeadingDigits(s)
             r1 == SubSeq(s, Len(ds) + 1, Len(s))
             u == LeadingUnit(r1)
             r2 == SubSeq(r1, Len(u) + 1, Len(r1))
         IN  IF ds = <<>> \/ u = <<>> \/ UnitNanos(u) = 0
             THEN [v |-> 0, err |-> "syntax"]
             ELSE durationLoop(r2, d + ParseUint(ds, 10, 64).v * UnitNanos(u))

\* time.ParseDuration
ParseDuration(s) ==
    LET neg == s # <<>> /\ Head(s) = "-"
        body == IF s # <<>> /\ Head(s) \in {"+", "-"} THEN Tail(s) ELSE s
        signed(r) ==
            IF r.err # "nil" THEN r
            ELSE [v |-> IF neg THEN 0 - r.v ELSE r.v, err |-> "nil"]
    IN  IF body = <<"0">> THEN [v |-> 0, err |-> "nil"]
        ELSE IF body = <<>> THEN [v |-> 0, err |-> "syntax"]
        ELSE signed(durationLoop(body, 0))

\* ------------------------------------------------------------------------
\* Struct tags: the text tags() writes and reflect.StructTag.Get reads
\* ------------------------------------------------------------------------

K_json == <<"j","s","o","n">>

K_envconfig == <<"e","n","v","c","o","n","f","i","g">>

K_envcli == <<"e","n","v","c","l","i">>

K_clidesc == <<"c","l","i","d","e","s","c">>

\* key:"value", one conventional entry of a struct tag
TagEntry(key, value) == key \o <<":", "\"">> \o value \o <<"\"">>

\* the index of the first character of s at or after i that ends a tag key
RECURSIVE scanKey(_, _)
scanKey(s, i) ==
    IF i <= Len(s) /\ ~IsSpace(s[i]) /\ s[i] \notin {":", "\""}
    THEN scanKey(s, i + 1)
    ELSE i

\* the index of the quote that closes the value opened at s[1]
RECURSIVE scanValue(_, _)
scanValue(s, i) ==
    IF i <= Len(s) /\ s[i] # "\""
    THEN scanValue(s, IF s[i] = "\\" THEN i + 2 ELSE i + 1)
    ELSE i

\* strconv.Unquote of the text between the quotes; <<"\\">> alone cannot
\* be a result, and stands for its error
RECURSIVE unquoteBody(_)
unquoteBody(q) ==
    IF q = <<>> THEN <<>>
    ELSE IF Head(q) = "\n" THEN <<"\\">>
    ELSE IF Head(q) # "\\"
    THEN LET r == unquoteBody(Tail(q))
         IN  IF r = <<"\\">> THEN r ELSE <<Head(q)>> \o r
    ELSE IF Len(q) >= 2 /\ q[2] \in {"\\", "\""}
    THEN LET r == unquoteBody(SubSeq(q, 3, Len(q)))
         IN  IF r = <<"\\">> THEN r ELSE <<q[2]>> \o r
    ELSE <<"\\">>

\* reflect.StructTag.Get(key): the loop of Lookup
RECURSIVE TagGet(_, _)
TagGet(tag0, key) ==
    LET tag == TrimLeft(tag0)
        i == scanKey(tag, 1)
    IN  IF tag = <<>> THEN <<>>
        ELSE IF i = 1 \/ i + 1 > Len(tag) \/ tag[i] # ":" \/ tag[i + 1] # "\""
        THEN <<>>
        ELSE LET name == SubSeq(tag, 1, i - 1)
                 rest == SubSeq(tag, i + 1, Len(tag))
                 unquoted(v) == IF v = <<"\\">> THEN <<>> ELSE v
                 value(j) ==
                     IF j > Len(rest) THEN <<>>
                     ELSE IF name = key
                     THEN unquoted(unquoteBody(SubSeq(rest, 2, j - 1)))
                     ELSE TagGet(SubSeq(rest, j + 1, Len(rest)), key)
             IN  value(scanValue(rest, 2))

\* ------------------------------------------------------------------------
\* Types of record fields (package reflect) and their layout in memory on a
\* 64-bit target.  A type is [k, name, e, fs, caps]: its kind, its name
\* when the code asks for it ("time.Duration"), its element type (in a
\* one-element sequence), its fields, and the custom decode capabilities
\* it or its pointer implements.  A field is [name, t, tag, anon].
\* ------------------------------------------------------------------------

Scalar(kind) == [k |-> kind, name |-> "", e |-> <<>>, fs |-> <<>>, caps |-> {}]

Duration == [k |-> "int64", name |-> "time.Duration", e |-> <<>>, fs |-> <<>>,
             caps |-> {}]

SliceOf(t) == [k |-> "slice", name |-> "", e |-> <<t>>, fs |-> <<>>, caps |-> {}]

PtrTo(t) == [k |-> "ptr", name |-> "", e |-> <<t>>, fs |-> <<>>, caps |-> {}]

StructOf(fields) ==
    [k |-> "struct", name |-> "", e |-> <<>>, fs |-> fields, caps |-> {}]

\* a struct type with methods: capabilities is a subset of
\* {"Decoder", "Setter", "TextUnmarshaler", "BinaryUnmarshaler"}
StructWith(fields, capabilities) ==
    [k |-> "struct", name |-> "", e |-> <<>>, fs |-> fields,
     caps |-> capabilities]

Fld(fname, type, ftag) == [name |-> fname, t |-> type, tag |-> ftag, anon |-> FALSE]

Embedded(fname, type, ftag) ==
    [name |-> fname, t |-> type, tag |-> ftag, anon |-> TRUE]

IntKinds == {"int", "int8", "int16", "int32", "int64"}

UintKinds == {"uint", "uint8", "uint16", "uint32", "uint64"}

RoundUp(n, a) == ((n + a - 1) \div a) * a

Max2(a, b) == IF a >= b THEN a ELSE b

RECURSIVE SizeOf(_), AlignOf(_), OffsetsFrom(_, _, _), MaxAlign(_)

\* the offset of every field of fs from index i on, the first at or after off
OffsetsFrom(fs, i, off) ==
    IF i > Len(fs) THEN <<>>
    ELSE LET o == RoundUp(off, AlignOf(fs[i].t))
         IN  <<o>> \o OffsetsFrom(fs, i + 1, o + SizeOf(fs[i].t))

MaxAlign(fs) ==
    IF fs = <<>> THEN 1 ELSE Max2(AlignOf(Head(fs).t), MaxAlign(Tail(fs)))

\* reflect.Type.Align
AlignOf(t) ==
    IF t.k \in {"bool", "int8", "uint8"} THEN 1
    ELSE IF t.k \in {"int16", "uint16"} THEN 2
    ELSE IF t.k \in {"int32", "uint32", "float32"} THEN 4
    ELSE IF t.k = "struct" THEN MaxAlign(t.fs)
    ELSE 8

\* reflect.Type.Size
SizeOf(t) ==
    IF t.k \in {"bool", "int8", "uint8"} THEN 1
    ELSE IF t.k \in {"int16", "uint16"} THEN 2
    ELSE IF t.k \in {"int32", "uint32", "float32"} THEN 4
    ELSE IF t.k = "string" THEN 16
    ELSE IF t.k = "slice" THEN 24
    ELSE IF t.k = "struct"
    THEN IF t.fs = <<>> THEN 0
         ELSE LET offs == OffsetsFrom(t.fs, 1, 0)
                  n == Len(t.fs)
              IN  RoundUp(offs[n] + SizeOf(t.fs[n].t), MaxAlign(t.fs))
    ELSE 8

\* reflect.Type.Bits
BitsOf(t) == 8 * SizeOf(t)

Offsets(t) == OffsetsFrom(t.fs, 1, 0)

\* ------------------------------------------------------------------------
\* The heap.  An object is [kind, b, s, v]: "mem" holds the bytes b of a
\* record or of a pointed-to value, "str" the characters s of string data,
\* "arr" the elements v of a slice's backing array.  A location is
\* [o, off]: byte off of object o.  Multi-byte values are written in the
\* target's byte order; the model writes them most significant byte first
\* and Arrange puts them in memory order.
\* ------------------------------------------------------------------------

Reverse(q) == [i \in DOMAIN q |-> q[Len(q) + 1 - i]]

Arrange(order, msb) == IF order = "little" THEN Reverse(msb) ELSE msb

\* byte k (0 the least significant) of the two's complement of n
ByteOf(n, k) ==
    IF k <= 3 THEN (n \div (256 ^ k)) % 256
    ELSE IF n < 0 THEN 255 ELSE 0

\* the size bytes of integer n, most significant first
Bits(n, size) == [i \in 1..size |-> ByteOf(n, size - i)]

\* the integer of a non-negative word below 2^31, and -1 for any other
WordVal(msb) ==
    LET n == Len(msb)
    IN  IF (\A i \in 1..(n - 4) : msb[i] = 0) /\ (n < 4 \/ msb[n - 3] < 128)
        THEN LET b(k) == IF n - k >= 1 THEN msb[n - k] ELSE 0
             IN  b(0) + 256 * b(1) + 65536 * b(2) + 16777216 * b(3)
        ELSE -1

HeapBase == 12582912

\* the address of object o
AddrOf(o) == HeapBase + 16 * o

\* the object at address a, 0 when there is none
ObjectAt(heap, a) ==
    IF a >= HeapBase /\ (a - HeapBase) % 16 = 0
       /\ (a - HeapBase) \div 16 \in DOMAIN heap
    THEN (a - HeapBase) \div 16
    ELSE 0

MemObject(size) ==
    [kind |-> "mem", b |-> [i \in 1..size |-> 0], s |-> <<>>, v |-> <<>>]

StrObject(chars) == [kind |-> "str", b |-> <<>>, s |-> chars, v |-> <<>>]

ArrObject(elems) == [kind |-> "arr", b |-> <<>>, s |-> <<>>, v |-> elems]

\* the write of bytes (in memory order) at loc: the bytes that fall inside
\* the object are stored, those past its end are not the object's
Store(heap, loc, bytes) ==
    [heap EXCEPT ![loc.o].b =
        [i \in DOMAIN @ |->
            IF i - loc.off \in 1..Len(bytes) THEN bytes[i - loc.off] ELSE @[i]]]

\* the addresses past the end of the object that a write of n bytes at loc
\* reaches
Spill(heap, loc, n) ==
    {[o |-> loc.o, off |-> a] :
        a \in {x \in loc.off..(loc.off + n - 1) : x >= Len(heap[loc.o].b)}}

\* the n bytes at loc, in memory order (0 past the end of the object)
Load(heap, loc, n) ==
    [i \in 1..n |->
        IF loc.off + i \in DOMAIN heap[loc.o].b
        THEN heap[loc.o].b[loc.off + i] ELSE 0]

At(loc, d) == [o |-> loc.o, off |-> loc.off + d]

\* the value of the n-byte integer at loc, most significant byte first
BitsAt(order, heap, loc, n) == Arrange(order, Load(heap, loc, n))

\* the 8-byte word at loc as an integer (-1 when it is no small integer)
WordAt(order, heap, loc) == WordVal(BitsAt(order, heap, loc, 8))

\* the bytes of a string header (data pointer, length) in memory order
StringHeader(order, ptr, len) ==
    Arrange(order, Bits(ptr, 8)) \o Arrange(order, Bits(len, 8))

\* the bytes of a slice header (data pointer, length, capacity)
SliceHeader(order, ptr, len, cap) ==
    StringHeader(order, ptr, len) \o Arrange(order, Bits(cap, 8))

\* strconv.ParseFloat on the literals of the model: the IEEE-754 bits (most
\* significant byte first) of the float64, of the float32 widened back to
\* float64 (what ParseFloat(s, 32) returns), and of the float32 itself
FloatLits ==
    << [text |-> <<"0">>, f64 |-> <<0, 0, 0, 0, 0, 0, 0, 0>>,
        f32as64 |-> <<0, 0, 0, 0, 0, 0, 0, 0>>, f32 |-> <<0, 0, 0, 0>>],
       [text |-> <<"1",".","5">>, f64 |-> <<63, 248, 0, 0, 0, 0, 0, 0>>,
        f32as64 |-> <<63, 248, 0, 0, 0, 0, 0, 0>>, f32 |-> <<63, 192, 0, 0>>],
       [text |-> <<"-","2">>, f64 |-> <<192, 0, 0, 0, 0, 0, 0, 0>>,
        f32as64 |-> <<192, 0, 0, 0, 0, 0, 0, 0>>, f32 |-> <<192, 0, 0, 0>>],
       [text |-> <<"3",".","1","4">>, f64 |-> <<64, 9, 30, 184, 81, 235, 133, 31>>,
        f32as64 |-> <<64, 9, 30, 184, 96, 0, 0, 0>>, f32 |-> <<64, 72, 245, 195>>],
       [text |-> <<"7">>, f64 |-> <<64, 28, 0, 0, 0, 0, 0, 0>>,
        f32as64 |-> <<64, 28, 0, 0, 0, 0, 0, 0>>, f32 |-> <<64, 224, 0, 0>> ] >>

FloatZero == <<0, 0, 0, 0, 0, 0, 0, 0>>

\* strconv.ParseFloat(s, bitSize): the float64 it returns, as its bits
ParseFloat(s, bitSize) ==
    IF \E i \in DOMAIN FloatLits : FloatLits[i].text = s
    THEN LET lit == FloatLits[CHOOSE i \in DOMAIN FloatLits : FloatLits[i].text = s]
         IN  [v |-> IF bitSize = 32 THEN lit.f32as64 ELSE lit.f64, err |-> "nil"]
    ELSE [v |-> FloatZero, err |-> "syntax"]

\* ------------------------------------------------------------------------
\* The state
\* ------------------------------------------------------------------------

VARIABLES
    options,    \* the ConfigurationOption list given to BuildConfig (<<>>: none)
    cfg,        \* the cfg argument: [t |-> its type, nil |-> a nil pointer]
    environ,    \* the process environment: variable name -> text
    osArgs,     \* the args argument of GetConfigFlagSet
    order,      \* the byte order of the target: "little" or "big"
    heap,       \* the objects; object 1 is the record cfg points to
    metas,      \* the descriptors reflectConfig returned
    idx,        \* the index in metas of the loop of GetConfigFlagSet
    fs,         \* the flag set: [formal, actual, args]; formal is the flags
                \* in registration order, actual the text each flag was set to
    commandLine,\* the names registered on flag.CommandLine by BuildConfig
    lookups,    \* the names os.LookupEnv was asked for
    spilled,    \* the addresses written past the end of an object
    ret,        \* what GetConfigFlagSet returned: [fs, err]
    exitCode,   \* the status of os.Exit, -1 while the process runs
    failure,    \* [err, name]: the error FlagSet.Parse failed with, and its flag
    pc          \* where the call is

vars == <<options, cfg, environ, osArgs, order, heap, metas, idx, fs,
          commandLine, lookups, spilled, ret, exitCode, failure, pc>>

\* ------------------------------------------------------------------------
\* Flag binder: naming and help precedence
\* ------------------------------------------------------------------------

\* tagCLI with the env override looked at first
tagCLI_envFirst(meta) ==
    IF meta.AltENV # <<>> THEN meta.AltENV
    ELSE IF meta.AltCLI # <<>> THEN meta.AltCLI
    ELSE IF meta.AltJSON # <<>> THEN meta.AltJSON
    ELSE meta.Key

tagCLI(meta) ==
    IF meta.AltCLI # <<>> THEN meta.AltCLI
    ELSE IF meta.AltJSON # <<>> THEN meta.AltJSON
    ELSE IF meta.AltENV # <<>> THEN meta.AltENV
    ELSE meta.Key

\* tagENV with the fallbacks taken as they are declared
tagENV_asDeclared(meta) ==
    IF meta.AltENV # <<>> THEN meta.AltENV
    ELSE IF meta.AltCLI # <<>> THEN meta.AltCLI
    ELSE IF meta.AltJSON # <<>> THEN meta.AltJSON
    ELSE meta.Key

tagENV(meta) ==
    IF meta.AltENV # <<>> THEN meta.AltENV
    ELSE IF meta.AltCLI # <<>> THEN ToUpper(meta.AltCLI)
    ELSE IF meta.AltJSON # <<>> THEN ToUpper(meta.AltJSON)
    ELSE ToUpper(meta.Key)

S_flag == <<"f","l","a","g",":"," ">>

S_orenv == <<" ","o","r"," ","e","n","v",":"," ">>

tagDesc(meta) ==
    IF meta.DescCLI # <<>> THEN meta.DescCLI
    ELSE S_flag \o tagCLI(meta) \o S_orenv \o tagENV(meta)

\* ------------------------------------------------------------------------
\* Typed environment lookup
\* ------------------------------------------------------------------------

\* os.LookupEnv
LookupEnv(key) ==
    IF key \in DOMAIN environ
    THEN [val |-> environ[key], ok |-> TRUE]
    ELSE [val |-> <<>>, ok |-> FALSE]

lookupEnvOrString(key, defaultVal) ==
    IF LookupEnv(key).ok THEN LookupEnv(key).val ELSE defaultVal

lookupEnvOrInt64(key, defaultVal) ==
    IF LookupEnv(key).ok
    THEN LET orZero(r) == IF r.err # "nil" THEN 0 ELSE r.v
         IN  orZero(ParseInt(LookupEnv(key).val, 10, 64))
    ELSE defaultVal

\* lookupEnvOrUint8, lookupEnvOrUint16, lookupEnvOrUint32, lookupEnvOrUint64:
\* they differ in the bit size given to ParseUint
lookupEnvOrUint(key, defaultVal, bitSize) ==
    IF LookupEnv(key).ok
    THEN LET orZero(r) == IF r.err # "nil" THEN 0 ELSE r.v
         IN  orZero(ParseUint(LookupEnv(key).val, 10, bitSize))
    ELSE defaultVal

lookupEnvOrDuration(key, defaultVal) ==
    IF LookupEnv(key).ok
    THEN LET orZero(r) == IF r.err # "nil" THEN 0 ELSE r.v
         IN  orZero(ParseDuration(LookupEnv(key).val))
    ELSE defaultVal

\* lookupEnvOrBool that does not consult the environment
lookupEnvOrBool_unset(key, defaultVal) == defaultVal

lookupEnvOrBool(key, defaultVal) ==
    IF LookupEnv(key).ok
    THEN LET orFalse(r) == IF r.err # "nil" THEN FALSE ELSE r.v
         IN  orFalse(ParseBool(LookupEnv(key).val))
    ELSE defaultVal

\* lookupEnvOrFloat32 and lookupEnvOrFloat64: the float64 returned, as bits
lookupEnvOrFloat(key, defaultVal, bitSize) ==
    IF LookupEnv(key).ok
    THEN LET orZero(r) == IF r.err # "nil" THEN FloatZero ELSE r.v
         IN  orZero(ParseFloat(LookupEnv(key).val, bitSize))
    ELSE defaultVal

\* ------------------------------------------------------------------------
\* Schema walker
\* ------------------------------------------------------------------------

\* reflect.Value.CanSet of a field of an addressable record: it is exported
CanSet(ft) == ft.name # <<>> /\ IsUpper(Head(ft.name))

\* reflect.Value.IsNil of the pointer stored at loc
IsNil(h, loc) == WordAt(order, h, loc) = 0

\* reflect.New(t) stored by field.Set at loc: the new object is the last
AllocAt(h, loc, t) ==
    LET h1 == Append(h, MemObject(SizeOf(t)))
    IN  Store(h1, loc, Arrange(order, Bits(AddrOf(Len(h1)), 8)))

\* reflect.Value.Elem of the non-nil pointer stored at loc
ElemLoc(h, loc) == [o |-> ObjectAt(h, WordAt(order, h, loc)), off |-> 0]

\* parseDecoder, parseSetter, textUnmarshaler, binaryUnmarshaler: whether
\* the field, or its address, implements the interface
parseDecoder(field) == "Decoder" \in field.t.caps

parseSetter(field) == "Setter" \in field.t.caps

textUnmarshaler(field) == "TextUnmarshaler" \in field.t.caps

binaryUnmarshaler(field) == "BinaryUnmarshaler" \in field.t.caps

\* the loop "for f.Kind() == reflect.Ptr" of reflectConfig
RECURSIVE derefLoop(_, _)
derefLoop(h, f) ==
    IF f.t.k # "ptr" THEN [heap |-> h, f |-> f]
    ELSE IF IsNil(h, f.loc)
    THEN IF f.t.e[1].k # "struct" THEN [heap |-> h, f |-> f]
         ELSE LET h1 == AllocAt(h, f.loc, f.t.e[1])
              IN  derefLoop(h1, [loc |-> [o |-> Len(h1), off |-> 0], t |-> f.t.e[1]])
    ELSE derefLoop(h, [loc |-> ElemLoc(h, f.loc), t |-> f.t.e[1]])

\* NewMeta with the envconfig tag kept in the letter case declared
NewMeta_envAsDeclared(ft, f) ==
    LET keyed(meta) ==
            [meta EXCEPT !.Key =
                ToUpper(IF meta.AltENV # <<>> THEN meta.AltENV ELSE ft.name)]
    IN  keyed([Name |-> ft.name,
               Field |-> f,
               Tags |-> ft.tag,
               AltCLI |-> TagGet(ft.tag, K_envcli),
               AltENV |-> TagGet(ft.tag, K_envconfig),
               AltJSON |-> TagGet(ft.tag, K_json),
               DescCLI |-> TagGet(ft.tag, K_clidesc),
               Key |-> ft.name])

\* the fieldMeta reflectConfig builds for field ft, stored at f
NewMeta(ft, f) ==
    LET keyed(meta) ==
            [meta EXCEPT !.Key =
                ToUpper(IF meta.AltENV # <<>> THEN meta.AltENV ELSE ft.name)]
    IN  keyed([Name |-> ft.name,
               Field |-> f,
               Tags |-> ft.tag,
               AltCLI |-> TagGet(ft.tag, K_envcli),
               AltENV |-> ToUpper(TagGet(ft.tag, K_envconfig)),
               AltJSON |-> TagGet(ft.tag, K_json),
               DescCLI |-> TagGet(ft.tag, K_clidesc),
               Key |-> ft.name])

RECURSIVE reflectConfig(_, _, _), walkFields(_, _, _, _, _, _)

\* walkFields that keeps the descriptor of a nested record it recurses into
walkFields_keepParent(prefix, h, loc, st, i, ms) ==
    IF i > Len(st.fs) THEN [metas |-> ms, heap |-> h, err |-> "nil"]
    ELSE LET ft == st.fs[i]
             f0 == [loc |-> At(loc, Offsets(st)[i]), t |-> ft.t]
         IN  IF ~CanSet(ft) THEN walkFields(prefix, h, loc, st, i + 1, ms)
             ELSE LET inner(sub, meta) ==
                          IF sub.err # "nil" THEN sub
                          ELSE walkFields(prefix, sub.heap, loc, st, i + 1,
                                          Append(ms, meta) \o sub.metas)
                      visit(h1, f, meta) ==
                          IF f.t.k = "struct"
                             /\ ~parseDecoder(f) /\ ~parseSetter(f)
                             /\ ~textUnmarshaler(f) /\ ~binaryUnmarshaler(f)
                          THEN inner(reflectConfig(
                                   IF ~ft.anon THEN meta.Key ELSE <<>>, h1,
                                   [t |-> PtrTo(f.t), nil |-> FALSE, loc |-> f.loc]),
                                     meta)
                          ELSE walkFields(prefix, h1, loc, st, i + 1,
                                          Append(ms, meta))
                      deref(d) == visit(d.heap, d.f, NewMeta(ft, d.f))
                  IN  deref(derefLoop(h, f0))

\* the loop of reflectConfig over the fields of the record of type st at
\* loc, from field i on; ms is the descriptors so far
walkFields(prefix, h, loc, st, i, ms) ==
    IF i > Len(st.fs) THEN [metas |-> ms, heap |-> h, err |-> "nil"]
    ELSE LET ft == st.fs[i]
             f0 == [loc |-> At(loc, Offsets(st)[i]), t |-> ft.t]
         IN  IF ~CanSet(ft) THEN walkFields(prefix, h, loc, st, i + 1, ms)
             ELSE LET inner(sub) ==
                          IF sub.err # "nil" THEN sub
                          ELSE walkFields(prefix, sub.heap, loc, st, i + 1,
                                          ms \o sub.metas)
                      visit(h1, f, meta) ==
                          IF f.t.k = "struct"
                             /\ ~parseDecoder(f) /\ ~parseSetter(f)
                             /\ ~textUnmarshaler(f) /\ ~binaryUnmarshaler(f)
                          THEN inner(reflectConfig(
                                   IF ~ft.anon THEN meta.Key ELSE <<>>, h1,
                                   [t |-> PtrTo(f.t), nil |-> FALSE, loc |-> f.loc]))
                          ELSE walkFields(prefix, h1, loc, st, i + 1,
                                          Append(ms, meta))
                      deref(d) == visit(d.heap, d.f, NewMeta(ft, d.f))
                  IN  deref(derefLoop(h, f0))

\* reflectConfig without the check that cfg points to a struct
reflectConfig_anyPointer(prefix, h, c) ==
    IF c.t.k # "ptr" \/ c.nil
    THEN [metas |-> <<>>, heap |-> h, err |-> "ErrInvalidConfig"]
    ELSE walkFields(prefix, h, c.loc, c.t.e[1], 1, <<>>)

\* reflectConfig(prefix, cfg): c is [t, nil, loc], the type of cfg, whether
\* it is a nil pointer, and where it points
reflectConfig(prefix, h, c) ==
    IF c.t.k # "ptr"
    THEN [metas |-> <<>>, heap |-> h, err |-> "ErrInvalidConfig"]
    ELSE IF c.nil \/ c.t.e[1].k # "struct"
    THEN [metas |-> <<>>, heap |-> h, err |-> "ErrInvalidConfig"]
    ELSE walkFields(prefix, h, c.loc, c.t.e[1], 1, <<>>)

\* ------------------------------------------------------------------------
\* Package flag: registration (FlagSet.BoolVar, Int64Var, UintVar,
\* Float64Var, StringVar, which end in FlagSet.Var)
\* ------------------------------------------------------------------------

\* a string in memory: its data object (none for the empty string)
StrAlloc(h, str) ==
    IF str = <<>> THEN [heap |-> h, ptr |-> 0]
    ELSE [heap |-> Append(h, StrObject(str)), ptr |-> AddrOf(Len(h) + 1)]

\* the bytes a flag value of this kind occupies behind its pointer
ValueSize(kind) ==
    IF kind = "bool" THEN 1 ELSE IF kind = "string" THEN 16 ELSE 8

\* *p = value through the typed pointer p of a flag of this kind
ValueStore(h, kind, p, value) ==
    IF kind = "bool" THEN Store(h, p, <<IF value THEN 1 ELSE 0>>)
    ELSE IF kind = "float64" THEN Store(h, p, Arrange(order, value))
    ELSE IF kind = "string"
    THEN LET a == StrAlloc(h, value)
         IN  Store(a.heap, p, StringHeader(order, a.ptr, Len(value)))
    ELSE Store(h, p, Arrange(order, Bits(value, 8)))

\* a flag set that never finds a name taken
HasFlag_never(fsv, name) == FALSE

HasFlag(fsv, name) == \E i \in DOMAIN fsv.formal : fsv.formal[i].name = name

\* FlagSet.XxxVar(p, name, value, usage): the default is stored through p,
\* then FlagSet.Var registers the flag, and panics when the name is taken
FlagVar(fsv, h, kind, p, name, value, usage) ==
    [heap |-> ValueStore(h, kind, p, value),
     spill |-> Spill(h, p, ValueSize(kind)),
     panic |-> HasFlag(fsv, name),
     fs |-> IF HasFlag(fsv, name) THEN fsv
            ELSE [fsv EXCEPT !.formal =
                    Append(@, [name |-> name, usage |-> usage, kind |-> kind,
                               p |-> p, def |-> value])]]

\* ------------------------------------------------------------------------
\* Value parser and flag binder
\* ------------------------------------------------------------------------

\* time.Duration, as parseMeta and parseValue recognise it
IsDuration(t) == t.k = "int64" /\ t.name = "time.Duration"

\* parseValue(v, field) for an element of type t0 of a fresh slice: the
\* value the element is set to.  A type with a custom decode capability
\* receives the text; what it makes of it is its own code.
parseValue(v, t0) ==
    IF t0.caps # {} THEN [v |-> [decoded |-> v], err |-> "nil"]
    ELSE LET t == IF t0.k = "ptr" THEN t0.e[1] ELSE t0
         IN  IF t.k = "bool" THEN ParseBool(v)
             ELSE IF t.k \in IntKinds
             THEN IF IsDuration(t) THEN ParseDuration(v)
                  ELSE ParseInt(v, 0, BitsOf(t))
             ELSE IF t.k \in UintKinds THEN ParseUint(v, 0, BitsOf(t))
             ELSE IF t.k \in {"float32", "float64"} THEN ParseFloat(v, BitsOf(t))
             ELSE IF t.k = "string" THEN [v |-> v, err |-> "nil"]
             ELSE [v |-> 0, err |-> "nil"]

\* the loop of parseMeta over the texts vs of a sequence field
RECURSIVE parseElems(_, _)
parseElems(vs, t) ==
    IF vs = <<>> THEN [v |-> <<>>, err |-> "nil"]
    ELSE LET then(r, rest) ==
                 IF r.err # "nil" THEN [v |-> <<>>, err |-> r.err]
                 ELSE IF rest.err # "nil" THEN rest
                 ELSE [v |-> <<r.v>> \o rest.v, err |-> "nil"]
         IN  then(parseValue(Head(vs), t), parseElems(Tail(vs), t))

\* sliceCase with the error of an element dropped
sliceCase_skipErrors(h, field, raw) ==
    LET set(made) ==
            [heap |-> Store(Append(h, ArrObject(made.v)), field.loc,
                            SliceHeader(order, AddrOf(Len(h) + 1),
                                        Len(made.v), Len(made.v))),
             err |-> "nil"]
    IN  set(IF Len(TrimSpace(raw)) # 0
            THEN parseElems(Split(raw, ","), field.t.e[1])
            ELSE [v |-> <<>>, err |-> "nil"])

\* the slice case of parseMeta, after StringVar: raw is *v
sliceCase(h, field, raw) ==
    LET set(made) ==
            IF made.err # "nil" THEN [heap |-> h, err |-> made.err]
            ELSE [heap |-> Store(Append(h, ArrObject(made.v)), field.loc,
                                 SliceHeader(order, AddrOf(Len(h) + 1),
                                             Len(made.v), Len(made.v))),
                  err |-> "nil"]
    IN  set(IF field.t.k = "uint8"
            THEN [v |-> Bytes(raw), err |-> "nil"]
            ELSE IF Len(TrimSpace(raw)) # 0
            THEN parseElems(Split(raw, ","), field.t.e[1])
            ELSE [v |-> <<>>, err |-> "nil"])

\* the kind of flag parseMeta registers for a field of kind k ("" for none)
FlagKind(k) ==
    IF k = "bool" THEN "bool"
    ELSE IF k \in IntKinds THEN "int64"
    ELSE IF k \in UintKinds THEN "uint"
    ELSE IF k \in {"float32", "float64"} THEN "float64"
    ELSE IF k \in {"string", "slice"} THEN "string"
    ELSE ""

\* the default parseMeta seeds the flag of field with: the lookupEnvOr...
\* call of its case
SeedValue(meta, field) ==
    LET k == field.t.k
        key == tagENV(meta)
    IN  IF k = "bool" THEN lookupEnvOrBool(key, FALSE)
        ELSE IF k \in IntKinds
        THEN IF meta.Field.t.k = "int64" /\ IsDuration(field.t)
             THEN lookupEnvOrDuration(key, 0)
             ELSE lookupEnvOrInt64(key, 0)
        ELSE IF k \in UintKinds
        THEN lookupEnvOrUint(key, 0, IF k = "uint8" THEN 8
                                     ELSE IF k = "uint16" THEN 16
                                     ELSE IF k = "uint32" THEN 32
                                     ELSE 64)
        ELSE IF k \in {"float32", "float64"}
        THEN lookupEnvOrFloat(key, FloatZero, IF k = "float32" THEN 32 ELSE 64)
        ELSE lookupEnvOrString(key, <<>>)

\* parseMeta(fs, meta): [fs, heap, spill, looked, status], status being
\* "nil", "panic" (FlagSet.Var) or the error returned
parseMeta(fsv, h, meta) ==
    LET isPtr == meta.Field.t.k = "ptr"
        \* after fs.XxxVar: r is what the registration left
        registered(field, value, r) ==
            LET done(h2, status) ==
                    [fs |-> r.fs, heap |-> h2, spill |-> r.spill,
                     looked |-> {tagENV(meta)}, status |-> status]
                sliced(sl) == done(sl.heap, sl.err)
            IN  IF r.panic THEN done(r.heap, "panic")
                ELSE IF field.t.k = "slice"
                THEN sliced(sliceCase(r.heap, field, value))
                ELSE IF field.t.k = "uint32"
                THEN done(Store(r.heap, field.loc, Arrange(order, Bits(value, 4))),
                          "nil")
                ELSE done(r.heap, "nil")
        \* the case of the switch: value is the lookupEnvOr... default
        case(h0, field, value) ==
            registered(field, value,
                       FlagVar(fsv, h0, FlagKind(field.t.k), field.loc,
                               tagCLI(meta), value, tagDesc(meta)))
        switch(h0, field) ==
            IF FlagKind(field.t.k) = ""
            THEN [fs |-> fsv, heap |-> h0, spill |-> {}, looked |-> {},
                  status |-> "nil"]
            ELSE case(h0, field, SeedValue(meta, field))
        \* field = field.Elem() of a pointer field
        elem(h0) ==
            switch(h0, IF isPtr
                       THEN [loc |-> ElemLoc(h0, meta.Field.loc),
                             t |-> meta.Field.t.e[1]]
                       ELSE meta.Field)
    IN  elem(IF isPtr /\ IsNil(h, meta.Field.loc)
             THEN AllocAt(h, meta.Field.loc, meta.Field.t.e[1])
             ELSE h)

\* ------------------------------------------------------------------------
\* Package flag: FlagSet.Parse
\* ------------------------------------------------------------------------

FlagNamed(fsv, name) ==
    fsv.formal[CHOOSE i \in DOMAIN fsv.formal : fsv.formal[i].name = name]

\* Value.Set that stores nothing when the text does not parse
flagSet_keepOnError(h, fl, text) ==
    LET stored(r) ==
            [heap |-> IF r.err = "nil" THEN ValueStore(h, fl.kind, fl.p, r.v) ELSE h,
             spill |-> IF r.err = "nil" THEN Spill(h, fl.p, ValueSize(fl.kind)) ELSE {},
             err |-> r.err]
    IN  stored(IF fl.kind = "bool" THEN ParseBool(text)
               ELSE IF fl.kind = "int64" THEN ParseInt(text, 0, 64)
               ELSE IF fl.kind = "uint" THEN ParseUint(text, 0, 64)
               ELSE IF fl.kind = "float64" THEN ParseFloat(text, 64)
               ELSE [v |-> text, err |-> "nil"])

\* Value.Set(text) of the flag fl: the parsed value is stored through the
\* flag's pointer whether or not the text parsed, and the error returned
flagSet(h, fl, text) ==
    LET stored(r) ==
            [heap |-> ValueStore(h, fl.kind, fl.p, r.v),
             spill |-> Spill(h, fl.p, ValueSize(fl.kind)),
             err |-> r.err]
    IN  stored(IF fl.kind = "bool" THEN ParseBool(text)
               ELSE IF fl.kind = "int64" THEN ParseInt(text, 0, 64)
               ELSE IF fl.kind = "uint" THEN ParseUint(text, 0, 64)
               ELSE IF fl.kind = "float64" THEN ParseFloat(text, 64)
               ELSE [v |-> text, err |-> "nil"])

\* the index of the first "=" of name after its first character, 0 if none
EqualsAt(name) ==
    IF \E i \in 2..Len(name) : name[i] = "="
    THEN CHOOSE i \in 2..Len(name) :
             name[i] = "=" /\ \A j \in 2..(i - 1) : name[j] # "="
    ELSE 0

S_help == <<"h","e","l","p">>

\* FlagSet.parseOne: [fs, heap, spill, seen, err, name], name being the
\* flag the error message of failf names
parseOne(fsv, h) ==
    LET stop(a, e, n) == [fs |-> [fsv EXCEPT !.args = a], heap |-> h, spill |-> {},
                          seen |-> FALSE, err |-> e, name |-> n]
    IN  IF fsv.args = <<>> THEN stop(fsv.args, "nil", <<>>)
        ELSE LET s == Head(fsv.args)
             IN  IF Len(s) < 2 \/ s[1] # "-" THEN stop(fsv.args, "nil", <<>>)
                 ELSE IF s = <<"-", "-">> THEN stop(Tail(fsv.args), "nil", <<>>)
                 ELSE LET numMinuses == IF s[2] = "-" THEN 2 ELSE 1
                          name0 == SubSeq(s, numMinuses + 1, Len(s))
                      IN  IF name0 = <<>> \/ name0[1] \in {"-", "="}
                          THEN stop(fsv.args, "bad flag syntax", s)
                          ELSE LET eq == EqualsAt(name0)
                                   hasValue0 == eq # 0
                                   name == IF eq # 0 THEN SubSeq(name0, 1, eq - 1) ELSE name0
                                   value0 == IF eq # 0 THEN SubSeq(name0, eq + 1, Len(name0))
                                             ELSE <<>>
                                   args1 == Tail(fsv.args)
                               IN  IF ~HasFlag(fsv, name)
                                   THEN IF name = S_help \/ name = <<"h">>
                                        THEN stop(args1, "ErrHelp", name)
                                        ELSE stop(args1, "flag provided but not defined", name)
                                   ELSE LET isBool == FlagNamed(fsv, name).kind = "bool"
                                            takeNext == ~isBool /\ ~hasValue0 /\ args1 # <<>>
                                            hasValue == hasValue0 \/ takeNext
                                            value == IF takeNext THEN Head(args1)
                                                     ELSE IF isBool /\ ~hasValue0
                                                     THEN <<"t","r","u","e">>
                                                     ELSE value0
                                            args2 == IF takeNext THEN Tail(args1) ELSE args1
                                            after(set) ==
                                                IF set.err # "nil"
                                                THEN [fs |-> [fsv EXCEPT !.args = args2],
                                                      heap |-> set.heap, spill |-> set.spill,
                                                      seen |-> FALSE,
                                                      err |-> IF isBool THEN "invalid boolean value"
                                                              ELSE "invalid value",
                                                      name |-> name]
                                                ELSE [fs |-> [fsv EXCEPT !.args = args2,
                                                                  !.actual = (name :> value) @@ @],
                                                      heap |-> set.heap, spill |-> set.spill,
                                                      seen |-> TRUE, err |-> "nil",
                                                      name |-> name]
                                        IN  IF ~isBool /\ ~hasValue
                                            THEN stop(args2, "flag needs an argument", name)
                                            ELSE after(flagSet(h, FlagNamed(fsv, name), value))

\* ------------------------------------------------------------------------
\* Dynamic schema builder.  An option of the model is [name, dv, opts]:
\* dv is the kind of the default value ("bool", "int64", "float64" or
\* "string"), opts the sequence of [opt, arg] given to NewOption...
\* ------------------------------------------------------------------------

\* OptionJSONName, OptionENVName, OptionCLIName, OptionCLIUsage applied to o
ApplyOption(o, opt) ==
    IF opt.opt = "JSONName" THEN [o EXCEPT !.jsonName = jsonify(opt.arg)]
    ELSE IF opt.opt = "ENVName" THEN [o EXCEPT !.envName = envify(opt.arg)]
    ELSE IF opt.opt = "CLIName"
    THEN [o EXCEPT !.cliName = snakify(opt.arg), !.useCLI = TRUE]
    ELSE [o EXCEPT !.usage = opt.arg, !.useCLI = TRUE]

RECURSIVE ApplyOptions(_, _)
ApplyOptions(o, opts) ==
    IF opts = <<>> THEN o ELSE ApplyOptions(ApplyOption(o, Head(opts)), Tail(opts))

newOption(name, dv, opts) ==
    LET opt0 == [name |-> name, envName |-> envify(name), jsonName |-> jsonify(name),
                 useCLI |-> TRUE, cliName |-> snakify(name), usage |-> <<>>,
                 defaultValue |-> dv]
        opt == ApplyOptions(opt0, opts)
    IN  IF opt.useCLI /\ opt.usage = <<>> THEN [opt EXCEPT !.usage = opt.name] ELSE opt

\* tags that leaves the envcli and clidesc entries out
tags_withoutFlag(o) ==
    LET t1 == IF o.jsonName # <<>>
              THEN <<" ">> \o TagEntry(K_json, o.jsonName) \o <<" ">> ELSE <<>>
        t2 == IF o.envName # <<>>
              THEN <<" ">> \o TagEntry(K_envconfig, o.envName) \o <<" ">> ELSE <<>>
    IN  TrimSpace(t1 \o t2)

tags(o) ==
    LET t1 == IF o.jsonName # <<>>
              THEN <<" ">> \o TagEntry(K_json, o.jsonName) \o <<" ">> ELSE <<>>
        t2 == IF o.envName # <<>>
              THEN <<" ">> \o TagEntry(K_envconfig, o.envName) \o <<" ">> ELSE <<>>
        t3 == IF o.useCLI
              THEN <<" ">> \o TagEntry(K_envcli, o.cliName) \o <<" ">>
                   \o TagEntry(K_clidesc, o.usage)
              ELSE <<>>
    IN  TrimSpace(t1 \o t2 \o t3)

\* the reflect.StructField BuildConfig appends for option o
OptionField(o) == Fld(o.name, Scalar(o.defaultValue), tags(o))

\* the options as newOption returns them
BuiltOptions(opts) == [i \in DOMAIN opts |-> newOption(opts[i].name, opts[i].dv, opts[i].opts)]

\* ------------------------------------------------------------------------
\* The calls the model makes.  A scenario is a record type (or a BuildConfig
\* call), the content the record starts with (every byte of its numeric
\* fields is `fill`), the environment variables that may be set and the
\* command-line arguments that may be given; the environment is any choice
\* of at most MaxEnv of its variables, the argument list any sequence of at
\* most MaxArgs of its groups of arguments.
\* ------------------------------------------------------------------------

MaxEnv == 2

MaxArgs == 2

\* no cfg yet: BuildConfig has not run
NoCfg == [t |-> Scalar("invalid"), nil |-> TRUE]

\* struct{ Num int `envconfig:"n_v" envcli:"num"`; Str string }
ScTagged ==
    [options |-> <<>>,
     cfg |-> [t |-> PtrTo(StructOf(<<Fld(<<"N","u","m">>, Scalar("int"), TagEntry(K_envconfig, <<"n","_","v">>) \o <<" ">> \o TagEntry(K_envcli, <<"n","u","m">>)),
        Fld(<<"S","t","r">>, Scalar("string"), <<>>)>>)),
             nil |-> FALSE],
     fill |-> 0,
     envItems |-> {[name |-> <<"N","_","V">>, text |-> <<"7">>], [name |-> <<"N","_","V">>, text |-> <<"a","b","c">>], [name |-> <<"S","T","R">>, text |-> <<"h","i">>], [name |-> <<"N","U","M">>, text |-> <<"9">>]},
     argItems |-> {<<<<"-","n","u","m">>, <<"5">>>>, <<<<"-","n","u","m">>, <<"x">>>>, <<<<"-","S","T","R","=","y","o">>>>, <<<<"-","z","z">>, <<"1">>>>}]

\* struct{ Pass bool `envcli:"pass"`; Ratio float64 `json:"ratio"`; Note string `clidesc:"a note"` }
ScFlags ==
    [options |-> <<>>,
     cfg |-> [t |-> PtrTo(StructOf(<<Fld(<<"P","a","s","s">>, Scalar("bool"), TagEntry(K_envcli, <<"p","a","s","s">>)),
        Fld(<<"R","a","t","i","o">>, Scalar("float64"), TagEntry(K_json, <<"r","a","t","i","o">>)),
        Fld(<<"N","o","t","e">>, Scalar("string"), TagEntry(K_clidesc, <<"a"," ","n","o","t","e">>))>>)),
             nil |-> FALSE],
     fill |-> 0,
     envItems |-> {[name |-> <<"P","A","S","S">>, text |-> <<"t","r","u","e">>], [name |-> <<"P","A","S","S">>, text |-> <<"j","u","n","k">>], [name |-> <<"R","A","T","I","O">>, text |-> <<"1",".","5">>]},
     argItems |-> {<<<<"-","p","a","s","s">>>>, <<<<"-","p","a","s","s","=","f","a","l","s","e">>>>, <<<<"-","r","a","t","i","o">>, <<"3",".","1","4">>>>, <<<<"-","h">>>>}]

\* struct{ A int8; B int8; C int32 }
ScNarrow ==
    [options |-> <<>>,
     cfg |-> [t |-> PtrTo(StructOf(<<Fld(<<"A">>, Scalar("int8"), <<>>),
        Fld(<<"B">>, Scalar("int8"), <<>>),
        Fld(<<"C">>, Scalar("int32"), <<>>)>>)),
             nil |-> FALSE],
     fill |-> 0,
     envItems |-> {[name |-> <<"A">>, text |-> <<"5">>], [name |-> <<"B">>, text |-> <<"7">>], [name |-> <<"C">>, text |-> <<"-","3">>]},
     argItems |-> {<<<<"-","A">>, <<"1">>>>, <<<<"-","B">>, <<"2">>>>, <<<<"-","C","=","-","1">>>>}]

\* struct{ F float32; G float32 }
ScFloat32 ==
    [options |-> <<>>,
     cfg |-> [t |-> PtrTo(StructOf(<<Fld(<<"F">>, Scalar("float32"), <<>>),
        Fld(<<"G">>, Scalar("float32"), <<>>)>>)),
             nil |-> FALSE],
     fill |-> 0,
     envItems |-> {[name |-> <<"F">>, text |-> <<"1",".","5">>], [name |-> <<"F">>, text |-> <<"a","b","c">>], [name |-> <<"G">>, text |-> <<"-","2">>]},
     argItems |-> {<<<<"-","F">>, <<"3",".","1","4">>>>, <<<<"-","G">>, <<"7">>>>}]

\* struct{ U uint8; V uint16; W uint32; X uint64 }
ScUnsigned ==
    [options |-> <<>>,
     cfg |-> [t |-> PtrTo(StructOf(<<Fld(<<"U">>, Scalar("uint8"), <<>>),
        Fld(<<"V">>, Scalar("uint16"), <<>>),
        Fld(<<"W">>, Scalar("uint32"), <<>>),
        Fld(<<"X">>, Scalar("uint64"), <<>>)>>)),
             nil |-> FALSE],
     fill |-> 0,
     envItems |-> {[name |-> <<"U">>, text |-> <<"2","0","0">>], [name |-> <<"U">>, text |-> <<"3","0","0">>], [name |-> <<"W">>, text |-> <<"7">>], [name |-> <<"X">>, text |-> <<"x">>]},
     argItems |-> {<<<<"-","U">>, <<"9">>>>, <<<<"-","W">>, <<"3">>>>, <<<<"-","X","=","1","2">>>>}]

\* struct{ L []int; K int }
ScIntList ==
    [options |-> <<>>,
     cfg |-> [t |-> PtrTo(StructOf(<<Fld(<<"L">>, SliceOf(Scalar("int")), <<>>),
        Fld(<<"K">>, Scalar("int"), <<>>)>>)),
             nil |-> FALSE],
     fill |-> 0,
     envItems |-> {[name |-> <<"L">>, text |-> <<"1",",","2",",","3">>], [name |-> <<"L">>, text |-> <<"1",",","x">>], [name |-> <<"L">>, text |-> <<" ">>], [name |-> <<"K">>, text |-> <<"y">>]},
     argItems |-> {<<<<"-","L">>, <<"4",",","5">>>>, <<<<"-","K">>, <<"2">>>>}]

\* struct{ B []byte; S []string }
ScBytes ==
    [options |-> <<>>,
     cfg |-> [t |-> PtrTo(StructOf(<<Fld(<<"B">>, SliceOf(Scalar("uint8")), <<>>),
        Fld(<<"S">>, SliceOf(Scalar("string")), <<>>)>>)),
             nil |-> FALSE],
     fill |-> 0,
     envItems |-> {[name |-> <<"B">>, text |-> <<"a",",","b">>], [name |-> <<"B">>, text |-> <<"1",",","2">>], [name |-> <<"B">>, text |-> <<>>], [name |-> <<"S">>, text |-> <<"a",",","b">>]},
     argItems |-> {<<<<"-","B">>, <<"7">>>>}]

\* struct{ N struct{ X int }; M struct{ X int } }
ScNested2 ==
    [options |-> <<>>,
     cfg |-> [t |-> PtrTo(StructOf(<<Fld(<<"N">>, StructOf(<<Fld(<<"X">>, Scalar("int"), <<>>)>>), <<>>),
        Fld(<<"M">>, StructOf(<<Fld(<<"X">>, Scalar("int"), <<>>)>>), <<>>)>>)),
             nil |-> FALSE],
     fill |-> 0,
     envItems |-> {[name |-> <<"X">>, text |-> <<"7">>], [name |-> <<"N","X">>, text |-> <<"8">>]},
     argItems |-> {<<<<"-","X">>, <<"1">>>>, <<<<"-","N","X">>, <<"2">>>>}]

\* struct{ N struct{ X int; Y string }; Z int }
ScNested1 ==
    [options |-> <<>>,
     cfg |-> [t |-> PtrTo(StructOf(<<Fld(<<"N">>, StructOf(<<Fld(<<"X">>, Scalar("int"), <<>>),
        Fld(<<"Y">>, Scalar("string"), <<>>)>>), <<>>),
        Fld(<<"Z">>, Scalar("int"), <<>>)>>)),
             nil |-> FALSE],
     fill |-> 0,
     envItems |-> {[name |-> <<"X">>, text |-> <<"7">>], [name |-> <<"N","X">>, text |-> <<"8">>], [name |-> <<"N","_","X">>, text |-> <<"9">>]},
     argItems |-> {<<<<"-","X">>, <<"1">>>>, <<<<"-","N","X">>, <<"2">>>>, <<<<"-","N","_","X">>, <<"3">>>>}]

\* struct{ Base; Y int } with type Base struct{ X int; Deep struct{ W int } }
ScEmbedded ==
    [options |-> <<>>,
     cfg |-> [t |-> PtrTo(StructOf(<<Embedded(<<"B","a","s","e">>, StructOf(<<Fld(<<"X">>, Scalar("int"), <<>>),
        Fld(<<"D","e","e","p">>, StructOf(<<Fld(<<"W">>, Scalar("int"), <<>>)>>), <<>>)>>), <<>>),
        Fld(<<"Y">>, Scalar("int"), <<>>)>>)),
             nil |-> FALSE],
     fill |-> 0,
     envItems |-> {[name |-> <<"X">>, text |-> <<"7">>], [name |-> <<"W">>, text |-> <<"2">>], [name |-> <<"Y">>, text |-> <<"z">>]},
     argItems |-> {<<<<"-","X">>, <<"1">>>>, <<<<"-","Y">>, <<"2">>>>, <<<<"-","W","=","3">>>>}]

\* struct{ P *int; Q *struct{ X int8; Z int8 } }
ScPointers ==
    [options |-> <<>>,
     cfg |-> [t |-> PtrTo(StructOf(<<Fld(<<"P">>, PtrTo(Scalar("int")), <<>>),
        Fld(<<"Q">>, PtrTo(StructOf(<<Fld(<<"X">>, Scalar("int8"), <<>>),
        Fld(<<"Z">>, Scalar("int8"), <<>>)>>)), <<>>)>>)),
             nil |-> FALSE],
     fill |-> 0,
     envItems |-> {[name |-> <<"P">>, text |-> <<"7">>], [name |-> <<"X">>, text |-> <<"3">>], [name |-> <<"Z">>, text |-> <<"4">>]},
     argItems |-> {<<<<"-","P">>, <<"1">>>>, <<<<"-","X">>, <<"2">>>>}]

\* struct{ T Stamp; M map[string]int; Z int; L []Stamp } with Stamp a struct implementing encoding.TextUnmarshaler
ScLeaf ==
    [options |-> <<>>,
     cfg |-> [t |-> PtrTo(StructOf(<<Fld(<<"T">>, StructWith(<<Fld(<<"S","e","c">>, Scalar("int"), <<>>)>>, {"TextUnmarshaler"}), <<>>),
        Fld(<<"M">>, Scalar("map"), <<>>),
        Fld(<<"Z">>, Scalar("int"), <<>>),
        Fld(<<"L">>, SliceOf(StructWith(<<Fld(<<"S","e","c">>, Scalar("int"), <<>>)>>, {"TextUnmarshaler"})), <<>>)>>)),
             nil |-> FALSE],
     fill |-> 0,
     envItems |-> {[name |-> <<"T">>, text |-> <<"x">>], [name |-> <<"Z">>, text |-> <<"7">>], [name |-> <<"S","E","C">>, text |-> <<"3">>], [name |-> <<"L">>, text |-> <<"a",",","b">>]},
     argItems |-> {<<<<"-","T">>, <<"x">>>>, <<<<"-","Z">>, <<"1">>>>}]

\* struct{ A int `envcli:"my flag"`; B int `json:" jn"`; C int `envconfig:"lo wer"` }
ScSpaces ==
    [options |-> <<>>,
     cfg |-> [t |-> PtrTo(StructOf(<<Fld(<<"A">>, Scalar("int"), TagEntry(K_envcli, <<"m","y"," ","f","l","a","g">>)),
        Fld(<<"B">>, Scalar("int"), TagEntry(K_json, <<" ","j","n">>)),
        Fld(<<"C">>, Scalar("int"), TagEntry(K_envconfig, <<"l","o"," ","w","e","r">>))>>)),
             nil |-> FALSE],
     fill |-> 0,
     envItems |-> {[name |-> <<"M","Y"," ","F","L","A","G">>, text |-> <<"7">>], [name |-> <<"M","Y","_","F","L","A","G">>, text |-> <<"8">>], [name |-> <<" ","J","N">>, text |-> <<"3">>], [name |-> <<"L","O"," ","W","E","R">>, text |-> <<"4">>]},
     argItems |-> {<<<<"-","m","y"," ","f","l","a","g">>, <<"1">>>>, <<<<"-","L","O"," ","W","E","R","=","2">>>>}]

\* struct{ A int8; b int8; C int16 } holding {1, 1, 257}
ScUnexported ==
    [options |-> <<>>,
     cfg |-> [t |-> PtrTo(StructOf(<<Fld(<<"A">>, Scalar("int8"), <<>>),
        Fld(<<"b">>, Scalar("int8"), <<>>),
        Fld(<<"C">>, Scalar("int16"), <<>>)>>)),
             nil |-> FALSE],
     fill |-> 1,
     envItems |-> {[name |-> <<"A">>, text |-> <<"5">>], [name |-> <<"B">>, text |-> <<"6">>], [name |-> <<"C">>, text |-> <<"x">>]},
     argItems |-> {<<<<"-","A">>, <<"-","1">>>>, <<<<"-","b">>, <<"1">>>>, <<<<"-","C">>, <<"9">>>>}]

\* struct{ D time.Duration; E *time.Duration }
ScDurations ==
    [options |-> <<>>,
     cfg |-> [t |-> PtrTo(StructOf(<<Fld(<<"D">>, Duration, <<>>),
        Fld(<<"E">>, PtrTo(Duration), <<>>)>>)),
             nil |-> FALSE],
     fill |-> 0,
     envItems |-> {[name |-> <<"D">>, text |-> <<"1","s">>], [name |-> <<"D">>, text |-> <<"5">>], [name |-> <<"E">>, text |-> <<"2","m","s">>]},
     argItems |-> {<<<<"-","D">>, <<"2","m","s">>>>, <<<<"-","D">>, <<"5">>>>, <<<<"-","E","=","7">>>>}]

\* the config record of the README
ScReadme ==
    [options |-> <<>>,
     cfg |-> [t |-> PtrTo(StructOf(<<Fld(<<"T","e","s","t","S","t","r","i","n","g">>, Scalar("string"), TagEntry(K_envconfig, <<"T","E","S","T","_","S","T","R","I","N","G">>)),
        Fld(<<"T","e","s","t","I","n","t">>, Scalar("int"), TagEntry(K_envconfig, <<"T","E","S","T","_","I","N","T">>) \o <<" ">> \o TagEntry(K_envcli, <<"t","e","s","t","i","n","t">>)),
        Fld(<<"T","e","s","t","F","l","o","a","t">>, Scalar("float64"), TagEntry(K_envconfig, <<"T","E","S","T","_","F","L","O","A","T">>) \o <<" ">> \o TagEntry(K_envcli, <<"t","e","s","t","f","l","o","a","t">>) \o <<" ">> \o TagEntry(K_clidesc, <<"s","e","t"," ","a"," ","f","l","o","a","t"," ","6","4"," ","v","a","l","u","e">>)),
        Fld(<<"P","a","s","s">>, Scalar("bool"), TagEntry(K_envcli, <<"p","a","s","s">>))>>)),
             nil |-> FALSE],
     fill |-> 0,
     envItems |-> {[name |-> <<"P","A","S","S">>, text |-> <<"t","r","u","e">>], [name |-> <<"T","E","S","T","_","I","N","T">>, text |-> <<"7">>]},
     argItems |-> {<<<<"-","t","e","s","t","i","n","t">>, <<"5">>, <<"-","T","E","S","T","_","S","T","R","I","N","G">>, <<"t","e","s","t","i","t">>, <<"-","t","e","s","t","f","l","o","a","t">>, <<"3",".","1","4">>>>, <<<<"-","p","a","s","s">>>>, <<<<"-","t","e","s","t","i","n","t">>, <<"1">>>>}]

\* cfg is a struct{ N int }, not a pointer to it
ScByValue ==
    [options |-> <<>>,
     cfg |-> [t |-> StructOf(<<Fld(<<"N">>, Scalar("int"), <<>>)>>),
             nil |-> FALSE],
     fill |-> 1,
     envItems |-> {[name |-> <<"N">>, text |-> <<"7">>]},
     argItems |-> {<<<<"-","N">>, <<"1">>>>}]

\* cfg is a *int
ScPtrToInt ==
    [options |-> <<>>,
     cfg |-> [t |-> PtrTo(Scalar("int")),
             nil |-> FALSE],
     fill |-> 1,
     envItems |-> {[name |-> <<"N">>, text |-> <<"7">>]},
     argItems |-> {<<<<"-","N">>, <<"1">>>>}]

\* cfg is nil
ScNilInterface ==
    [options |-> <<>>,
     cfg |-> [t |-> Scalar("invalid"),
             nil |-> TRUE],
     fill |-> 0,
     envItems |-> {[name |-> <<"N">>, text |-> <<"7">>]},
     argItems |-> {<<<<"-","N">>, <<"1">>>>}]

\* cfg is a nil *struct{ N int }
ScNilPointer ==
    [options |-> <<>>,
     cfg |-> [t |-> PtrTo(StructOf(<<Fld(<<"N">>, Scalar("int"), <<>>)>>)),
             nil |-> TRUE],
     fill |-> 0,
     envItems |-> {[name |-> <<"N">>, text |-> <<"7">>]},
     argItems |-> {<<<<"-","N">>, <<"1">>>>}]

\* cfg is a **struct{ N int }
ScPtrToPtr ==
    [options |-> <<>>,
     cfg |-> [t |-> PtrTo(PtrTo(StructOf(<<Fld(<<"N">>, Scalar("int"), <<>>)>>))),
             nil |-> FALSE],
     fill |-> 0,
     envItems |-> {[name |-> <<"N">>, text |-> <<"7">>]},
     argItems |-> {<<<<"-","N">>, <<"1">>>>}]

\* the BuildConfig call of the README
ScReadmeBuilt ==
    [options |-> <<[name |-> <<"T","e","s","t","S","t","r","i","n","g">>, dv |-> "string", opts |-> <<[opt |-> "ENVName", arg |-> <<"T","E","S","T","_","S","T","R","I","N","G">>], [opt |-> "CLIName", arg |-> <<"T","E","S","T","_","S","T","R","I","N","G">>], [opt |-> "JSONName", arg |-> <<"t","e","s","t","S","t","r","i","n","g">>]>>],
        [name |-> <<"T","e","s","t","I","n","t">>, dv |-> "int64", opts |-> <<[opt |-> "ENVName", arg |-> <<"T","E","S","T","_","I","N","T">>], [opt |-> "CLIName", arg |-> <<"t","e","s","t","i","n","t">>], [opt |-> "JSONName", arg |-> <<"t","e","s","t","I","n","t">>]>>],
        [name |-> <<"T","e","s","t","F","l","o","a","t">>, dv |-> "float64", opts |-> <<[opt |-> "ENVName", arg |-> <<"T","E","S","T","_","F","L","O","A","T">>], [opt |-> "CLIName", arg |-> <<"t","e","s","t","f","l","o","a","t">>], [opt |-> "JSONName", arg |-> <<"t","e","s","t","F","l","o","a","t">>], [opt |-> "CLIUsage", arg |-> <<"s","e","t"," ","a"," ","f","l","o","a","t"," ","6","4"," ","v","a","l","u","e">>]>>],
        [name |-> <<"P","a","s","s">>, dv |-> "bool", opts |-> <<[opt |-> "ENVName", arg |-> <<"P","A","S","S">>], [opt |-> "CLIName", arg |-> <<"p","a","s","s">>], [opt |-> "JSONName", arg |-> <<"p","a","s","s">>]>>]>>,
     cfg |-> NoCfg,
     fill |-> 0,
     envItems |-> {[name |-> <<"P","A","S","S">>, text |-> <<"t","r","u","e">>], [name |-> <<"T","E","S","T","_","I","N","T">>, text |-> <<"7">>]},
     argItems |-> {<<<<"-","t","e","s","t","i","n","t">>, <<"5">>, <<"-","T","E","S","T","_","S","T","R","I","N","G">>, <<"t","e","s","t","i","t">>, <<"-","t","e","s","t","f","l","o","a","t">>, <<"3",".","1","4">>>>, <<<<"-","p","a","s","s">>>>, <<<<"-","t","e","s","t","i","n","t">>, <<"1">>>>}]

\* BuildConfig(NewOptionInt("Ab"), NewOptionString("Cd", OptionCLIUsage("use it")), NewOptionBool("Ef", OptionENVName("e f")), NewOptionFloat("Gh", OptionJSONName("my_json")))
ScBuilt ==
    [options |-> <<[name |-> <<"A","b">>, dv |-> "int64", opts |-> <<>>],
        [name |-> <<"C","d">>, dv |-> "string", opts |-> <<[opt |-> "CLIUsage", arg |-> <<"u","s","e"," ","i","t">>]>>],
        [name |-> <<"E","f">>, dv |-> "bool", opts |-> <<[opt |-> "ENVName", arg |-> <<"e"," ","f">>]>>],
        [name |-> <<"G","h">>, dv |-> "float64", opts |-> <<[opt |-> "JSONName", arg |-> <<"m","y","_","j","s","o","n">>]>>]>>,
     cfg |-> NoCfg,
     fill |-> 0,
     envItems |-> {[name |-> <<"A","B">>, text |-> <<"7">>], [name |-> <<"E","_","F">>, text |-> <<"t","r","u","e">>], [name |-> <<"C","D">>, text |-> <<"h","i">>]},
     argItems |-> {<<<<"-","A","b">>, <<"1">>>>, <<<<"-","C","d">>, <<"x">>>>, <<<<"-","E","f">>>>}]

\* BuildConfig(NewOptionInt("Ab"), NewOptionInt("Cd", OptionCLIName("Ab")))
ScBuiltTwice ==
    [options |-> <<[name |-> <<"A","b">>, dv |-> "int64", opts |-> <<>>],
        [name |-> <<"C","d">>, dv |-> "int64", opts |-> <<[opt |-> "CLIName", arg |-> <<"A","b">>]>>]>>,
     cfg |-> NoCfg,
     fill |-> 0,
     envItems |-> {[name |-> <<"A","B">>, text |-> <<"7">>]},
     argItems |-> {<<<<"-","A","b">>, <<"1">>>>}]

Scenarios ==
    {ScTagged,
      ScFlags,
      ScNarrow,
      ScFloat32,
      ScUnsigned,
      ScIntList,
      ScBytes,
      ScNested2,
      ScNested1,
      ScEmbedded,
      ScPointers,
      ScLeaf,
      ScSpaces,
      ScUnexported,
      ScDurations,
      ScReadme,
      ScByValue,
      ScPtrToInt,
      ScNilInterface,
      ScNilPointer,
      ScPtrToPtr,
      ScReadmeBuilt,
      ScBuilt,
      ScBuiltTwice}

\* the bytes a value of type t starts with: every byte of a numeric field
\* is fill (a bool is fill), every pointer, string and slice is nil
RECURSIVE InitBytes(_, _)
InitBytes(t, fill) ==
    IF t.k = "struct"
    THEN LET offs == Offsets(t)
             holder(a) == {j \in DOMAIN t.fs :
                              a >= offs[j] /\ a < offs[j] + SizeOf(t.fs[j].t)}
         IN  [i \in 1..SizeOf(t) |->
                 IF holder(i - 1) = {} THEN 0
                 ELSE LET j == CHOOSE x \in holder(i - 1) : TRUE
                      IN  InitBytes(t.fs[j].t, fill)[i - offs[j]]]
    ELSE IF t.k \in IntKinds \cup UintKinds \cup {"bool", "float32", "float64"}
    THEN [i \in 1..SizeOf(t) |-> fill]
    ELSE [i \in 1..SizeOf(t) |-> 0]

\* the heap a call starts with: the value cfg holds or points to
InitHeap(c, fill) ==
    IF c.nil THEN <<>>
    ELSE LET t == IF c.t.k = "ptr" THEN c.t.e[1] ELSE c.t
         IN  <<[kind |-> "mem", b |-> InitBytes(t, fill), s |-> <<>>, v |-> <<>>]>>

\* the environments of a scenario: at most MaxEnv variables, one text each
Environments(sc) ==
    {E \in SUBSET sc.envItems :
        /\ Cardinality(E) <= MaxEnv
        /\ \A x \in E, y \in E : x.name = y.name => x = y}

EnvOf(E) ==
    [n \in {x.name : x \in E} |-> (CHOOSE x \in E : x.name = n).text]

RECURSIVE Flatten(_)
Flatten(groups) ==
    IF groups = <<>> THEN <<>> ELSE Head(groups) \o Flatten(Tail(groups))

\* the argument lists of a scenario: at most MaxArgs of its groups
ArgLists(sc) ==
    {Flatten(g) : g \in UNION {[1..n -> sc.argItems] : n \in 0..MaxArgs}}

NewFlagSet == [formal |-> <<>>, actual |-> <<>>, args |-> <<>>]

Init ==
    \E sc \in Scenarios :
        \E E \in Environments(sc) :
            \E a \in ArgLists(sc) :
                /\ options = sc.options
                /\ cfg = sc.cfg
                /\ environ = EnvOf(E)
                /\ osArgs = a
                /\ order \in {"little", "big"}
                /\ heap = IF sc.options # <<>> THEN <<>>
                          ELSE InitHeap(sc.cfg, sc.fill)
                /\ metas = <<>>
                /\ idx = 0
                /\ fs = NewFlagSet
                /\ commandLine = <<>>
                /\ lookups = {}
                /\ spilled = {}
                /\ ret = [fs |-> FALSE, err |-> ""]
                /\ exitCode = -1
                /\ failure = [err |-> "nil", name |-> <<>>]
                /\ pc = IF sc.options # <<>> THEN "build" ELSE "call"

\* ------------------------------------------------------------------------
\* The operations
\* ------------------------------------------------------------------------

\* BuildConfig(options...): every option looks its variable up and
\* registers a flag on flag.CommandLine (which panics on a name taken);
\* the result holds a pointer to a new zero record of the synthesised type
BuildConfig ==
    /\ pc = "build"
    /\ \E os \in {BuiltOptions(options)} :
         \E type \in {StructOf([i \in DOMAIN os |-> OptionField(os[i])])} :
           /\ lookups' = lookups \cup {os[i].envName : i \in DOMAIN os}
           /\ IF \E i \in DOMAIN os, j \in DOMAIN os :
                    i < j /\ os[i].cliName = os[j].cliName
              THEN /\ pc' = "panicked"
                   /\ UNCHANGED <<cfg, heap, commandLine>>
              ELSE /\ pc' = "call"
                   /\ commandLine' = [i \in DOMAIN os |-> os[i].cliName]
                   /\ cfg' = [t |-> PtrTo(type), nil |-> FALSE]
                   /\ heap' = <<MemObject(SizeOf(type))>>
    /\ UNCHANGED <<options, environ, osArgs, order, metas, idx, fs, spilled, ret,
                   exitCode, failure>>

\* GetConfigFlagSet, to the end of reflectConfig
Reflect ==
    /\ pc = "call"
    /\ \E r \in {reflectConfig(<<>>, heap,
                   [t |-> cfg.t, nil |-> cfg.nil, loc |-> [o |-> 1, off |-> 0]])} :
           IF r.err # "nil"
           THEN /\ ret' = [fs |-> FALSE, err |-> r.err]
                /\ pc' = "returned"
                /\ UNCHANGED <<heap, metas, idx, fs>>
           ELSE /\ heap' = r.heap
                /\ metas' = r.metas
                /\ idx' = 1
                /\ fs' = NewFlagSet
                /\ pc' = "bind"
                /\ UNCHANGED ret
    /\ UNCHANGED <<options, cfg, environ, osArgs, order, commandLine, lookups,
                   spilled, exitCode, failure>>

\* GetConfigFlagSet, one turn of its loop: parseMeta(fs, meta)
Bind ==
    /\ pc = "bind"
    /\ idx <= Len(metas)
    /\ \E r \in {parseMeta(fs, heap, metas[idx])} :
           /\ heap' = r.heap
           /\ fs' = r.fs
           /\ lookups' = lookups \cup r.looked
           /\ spilled' = spilled \cup r.spill
           /\ IF r.status = "panic"
              THEN pc' = "panicked" /\ UNCHANGED <<idx, ret>>
              ELSE IF r.status # "nil"
              THEN /\ ret' = [fs |-> FALSE, err |-> r.status]
                   /\ pc' = "returned"
                   /\ UNCHANGED idx
              ELSE /\ idx' = idx + 1
                   /\ UNCHANGED <<pc, ret>>
    /\ UNCHANGED <<options, cfg, environ, osArgs, order, metas, commandLine,
                   exitCode, failure>>

\* GetConfigFlagSet, the call of fs.Parse(args)
BeginParse ==
    /\ pc = "bind"
    /\ idx > Len(metas)
    /\ fs' = [fs EXCEPT !.args = osArgs]
    /\ pc' = "parse"
    /\ UNCHANGED <<options, cfg, environ, osArgs, order, heap, metas, idx,
                   commandLine, lookups, spilled, ret, exitCode, failure>>

\* FlagSet.Parse, one turn of its loop: parseOne, and on its error os.Exit
\* (the flag set is made with flag.ExitOnError); at the end of the
\* arguments GetConfigFlagSet returns the flag set
ParseOne ==
    /\ pc = "parse"
    /\ \E r \in {parseOne(fs, heap)} :
           /\ heap' = r.heap
           /\ fs' = r.fs
           /\ spilled' = spilled \cup r.spill
           /\ IF r.seen THEN UNCHANGED <<pc, ret, exitCode, failure>>
              ELSE IF r.err = "nil"
              THEN /\ ret' = [fs |-> TRUE, err |-> "nil"]
                   /\ pc' = "returned"
                   /\ UNCHANGED <<exitCode, failure>>
              ELSE /\ exitCode' = IF r.err = "ErrHelp" THEN 0 ELSE 2
                   /\ failure' = [err |-> r.err, name |-> r.name]
                   /\ pc' = "exited"
                   /\ UNCHANGED ret
    /\ UNCHANGED <<options, cfg, environ, osArgs, order, metas, idx, commandLine,
                   lookups>>

Next == BuildConfig \/ Reflect \/ Bind \/ BeginParse \/ ParseOne

Spec == Init /\ [][Next]_vars

\* ------------------------------------------------------------------------
\* What the caller of GetConfigFlagSet reads back from the record
\* ------------------------------------------------------------------------

\* the field parseMeta binds the flag of meta to: the field itself, or what
\* a pointer field points to
Target(meta) ==
    IF meta.Field.t.k = "ptr"
    THEN [loc |-> ElemLoc(heap, meta.Field.loc), t |-> meta.Field.t.e[1]]
    ELSE meta.Field

\* whether parseMeta has a case for the field of meta
Registers(meta) == FlagKind(Target(meta).t.k) # ""

\* the descriptors the loop of GetConfigFlagSet has been through, while
\* none of them failed
Binding == pc \in {"bind", "parse", "exited"} \/ (pc = "returned" /\ ret.err = "nil")

BoundMetas == {i \in DOMAIN metas : i < idx /\ Registers(metas[i])}

\* the Go string whose header is at loc: its characters, when the header
\* points into string data
StringAt(h, loc) ==
    LET ptr == WordAt(order, h, loc)
        n == WordAt(order, h, At(loc, 8))
        o == ObjectAt(h, ptr)
    IN  IF n = 0 THEN [ok |-> TRUE, s |-> <<>>]
        ELSE IF o # 0 /\ h[o].kind = "str" /\ n <= Len(h[o].s)
        THEN [ok |-> TRUE, s |-> SubSeq(h[o].s, 1, n)]
        ELSE [ok |-> FALSE, s |-> <<>>]

\* the Go slice whose header is at loc: its elements, when the header
\* points into a backing array
SliceAt(h, loc) ==
    LET ptr == WordAt(order, h, loc)
        n == WordAt(order, h, At(loc, 8))
        o == ObjectAt(h, ptr)
    IN  IF n = 0 THEN [ok |-> TRUE, v |-> <<>>]
        ELSE IF o # 0 /\ h[o].kind = "arr" /\ n <= Len(h[o].v)
        THEN [ok |-> TRUE, v |-> SubSeq(h[o].v, 1, n)]
        ELSE [ok |-> FALSE, v |-> <<>>]

\* the bytes of a numeric or boolean field, most significant first
FieldBits(h, field) == BitsAt(order, h, field.loc, SizeOf(field.t))

\* float32(x) of a float64 x that a float32 holds exactly, as bits
Float32Bits(v) ==
    FloatLits[CHOOSE i \in DOMAIN FloatLits : FloatLits[i].f32as64 = v].f32

\* the bytes (most significant first) a numeric or boolean field of type t
\* holds when its value is the one text denotes, read in the grammar of the
\* environment (base 10) or of the command line (base 0); ok: text denotes one
Encode(t, text, base) ==
    LET int(r) == [ok |-> r.err = "nil", bits |-> Bits(r.v, SizeOf(t))]
        float(r) == [ok |-> r.err = "nil",
                     bits |-> IF t.k = "float32" THEN Float32Bits(r.v) ELSE r.v]
        bool(r) == [ok |-> r.err = "nil", bits |-> <<IF r.v THEN 1 ELSE 0>>]
    IN  IF t.k = "bool" THEN bool(ParseBool(text))
        ELSE IF t.k \in IntKinds
        THEN int(IF IsDuration(t) /\ base = 10 THEN ParseDuration(text)
                 ELSE ParseInt(text, base, BitsOf(t)))
        ELSE IF t.k \in UintKinds THEN int(ParseUint(text, base, BitsOf(t)))
        ELSE float(ParseFloat(text, BitsOf(t)))

ScalarKinds == {"bool", "float32", "float64", "string"} \cup IntKinds \cup UintKinds

\* whether text denotes a value of the scalar type t
Parses(t, text, base) == t.k = "string" \/ Encode(t, text, base).ok

\* whether the scalar field holds the value text denotes
HoldsText(h, field, text, base) ==
    IF field.t.k = "string"
    THEN StringAt(h, field.loc).ok /\ StringAt(h, field.loc).s = text
    ELSE Encode(field.t, text, base).ok
         /\ FieldBits(h, field) = Encode(field.t, text, base).bits

\* whether the scalar field holds the zero value of its type
HoldsZero(h, field) ==
    IF field.t.k = "string"
    THEN StringAt(h, field.loc).ok /\ StringAt(h, field.loc).s = <<>>
    ELSE \A i \in DOMAIN FieldBits(h, field) : FieldBits(h, field)[i] = 0

\* ------------------------------------------------------------------------
\* Field resolution
\* ------------------------------------------------------------------------

\* the value C1 gives the field of meta: the command-line value of its
\* flag, else the parsed value of its environment variable, else zero
FieldResolved(meta) ==
    IF tagCLI(meta) \in DOMAIN fs.actual
    THEN HoldsText(heap, meta.Field, fs.actual[tagCLI(meta)], 0)
    ELSE IF tagENV(meta) \in DOMAIN environ
            /\ Parses(meta.Field.t, environ[tagENV(meta)], 10)
    THEN HoldsText(heap, meta.Field, environ[tagENV(meta)], 10)
    ELSE HoldsZero(heap, meta.Field)

\* C1: after GetConfigFlagSet returns successfully, every settable scalar
\* field holds the command-line value of its effective flag if the flag is
\* in args, else the parsed value of its environment variable if that is set
\* and parses, else the zero value of its type.
C1_ScalarFieldsResolved ==
    (pc = "returned" /\ ret.err = "nil") =>
        \A i \in DOMAIN metas :
            metas[i].Field.t.k \in ScalarKinds => FieldResolved(metas[i])

\* a float32 field whose variable is set to 1.5, with no arguments, reads
\* 0 on a little-endian target after a successful call
C1_Float32Misread ==
    /\ pc = "returned" /\ ret.err = "nil"
    /\ cfg = ScFloat32.cfg /\ osArgs = <<>> /\ order = "little"
    /\ <<"F">> \in DOMAIN environ /\ environ[<<"F">>] = <<"1", ".", "5">>
    /\ FieldBits(heap, metas[1].Field) = <<0, 0, 0, 0>>

\* ------------------------------------------------------------------------
\* Naming
\* ------------------------------------------------------------------------

\* the first non-empty of the flag, display and env overrides of meta, else
\* its key
FlagPrecedence(meta) ==
    IF meta.AltCLI # <<>> THEN meta.AltCLI
    ELSE IF meta.AltJSON # <<>> THEN meta.AltJSON
    ELSE IF meta.AltENV # <<>> THEN meta.AltENV
    ELSE meta.Key

EnvFallback(meta) ==
    IF meta.AltCLI # <<>> THEN meta.AltCLI
    ELSE IF meta.AltJSON # <<>> THEN meta.AltJSON
    ELSE meta.Key

\* C3 as the spec states it: the variable looked up for a field of a
\* declared record is its env override, else the env-styled (trimmed,
\* spaces to underscores, upper-cased) flag override, display override or
\* key; a fallback name holds no space and no lower-case letter.
C3_EnvNameEnvStyled ==
    (Binding /\ options = <<>>) =>
        /\ lookups = {IF metas[i].AltENV # <<>> THEN metas[i].AltENV
                      ELSE envify(EnvFallback(metas[i])) : i \in BoundMetas}
        /\ \A i \in BoundMetas : metas[i].AltENV = <<>> =>
               \A n \in lookups : n = ToUpper(EnvFallback(metas[i])) =>
                   \A k \in DOMAIN n : n[k] # " " /\ ~IsLower(n[k])

\* C3, amended: the variable looked up for a field of a declared record is
\* its env override, else the upper-cased flag override, display override
\* or key, with its whitespace kept; a fallback name holds no lower-case
\* letter.
C3_EnvNameUpperCased ==
    (Binding /\ options = <<>>) =>
        /\ lookups = {IF metas[i].AltENV # <<>> THEN metas[i].AltENV
                      ELSE ToUpper(EnvFallback(metas[i])) : i \in BoundMetas}
        /\ \A i \in BoundMetas : metas[i].AltENV = <<>> =>
               \A n \in lookups : n = ToUpper(EnvFallback(metas[i])) =>
                   \A k \in DOMAIN n : ~IsLower(n[k])

\* the variable looked up for a flag override with a space in it keeps
\* the space
C3_SpaceKept ==
    /\ Binding /\ options = <<>>
    /\ \E i \in BoundMetas :
           /\ metas[i].AltENV = <<>>
           /\ Contains(metas[i].AltCLI, " ")
           /\ ToUpper(metas[i].AltCLI) \in lookups
           /\ envify(metas[i].AltCLI) \notin lookups

\* whether the author gave the field of meta a help text: a clidesc tag
\* on a declared record, an OptionCLIUsage on an option of BuildConfig
HasHelpOverride(meta) ==
    IF options = <<>> THEN meta.DescCLI # <<>>
    ELSE \E k \in DOMAIN options :
             /\ options[k].name = meta.Name
             /\ \E o \in DOMAIN options[k].opts :
                    options[k].opts[o].opt = "CLIUsage"

\* C4: the flag of a field with no help override, of a declared record or
\* of a record built from an option without OptionCLIUsage, has the help
\* text "flag: <flag name> or env: <env name>"; with a help override, the
\* help text is the override.
C4_HelpText ==
    \A i \in DOMAIN metas, j \in DOMAIN fs.formal :
        (Registers(metas[i]) /\ fs.formal[j].p = Target(metas[i]).loc) =>
            fs.formal[j].usage =
                IF HasHelpOverride(metas[i]) THEN metas[i].DescCLI
                ELSE S_flag \o fs.formal[j].name \o S_orenv \o tagENV(metas[i])

\* the flag of an option built without OptionCLIUsage has the name of the
\* field as its help text
C4_FieldNameAsHelp ==
    \E i \in DOMAIN metas, j \in DOMAIN fs.formal :
        /\ options # <<>> /\ ~HasHelpOverride(metas[i])
        /\ fs.formal[j].p = Target(metas[i]).loc
        /\ fs.formal[j].usage = metas[i].Name

\* ------------------------------------------------------------------------
\* Nested records
\* ------------------------------------------------------------------------

\* the key of the named nested record of the record cfg points to that
\* holds the field of meta, <<>> when there is none
Owner(meta) ==
    LET st == cfg.t.e[1]
        holders == {n \in DOMAIN st.fs :
                       /\ st.fs[n].t.k = "struct" /\ st.fs[n].t.caps = {}
                       /\ ~st.fs[n].anon /\ CanSet(st.fs[n])
                       /\ meta.Field.loc.o = 1
                       /\ meta.Field.loc.off >= Offsets(st)[n]
                       /\ meta.Field.loc.off < Offsets(st)[n] + SizeOf(st.fs[n].t)}
    IN  IF holders = {} THEN <<>>
        ELSE NewMeta(st.fs[CHOOSE n \in holders : TRUE], meta.Field).Key

NoOverrides(meta) ==
    meta.AltCLI = <<>> /\ meta.AltJSON = <<>> /\ meta.AltENV = <<>>

IsPrefix(a, b) == Len(a) <= Len(b) /\ SubSeq(b, 1, Len(a)) = a

\* C5: the flag of a field X with no overrides inside a named nested
\* record N is registered under a name that starts with the key of N and is
\* not the bare key of X; so binding the field X of a second named nested
\* record does not find the name taken.
C5_NestedFlagPrefixed ==
    /\ \A i \in DOMAIN metas, j \in DOMAIN fs.formal :
           (/\ Registers(metas[i]) /\ fs.formal[j].p = Target(metas[i]).loc
            /\ NoOverrides(metas[i]) /\ Owner(metas[i]) # <<>>) =>
               /\ IsPrefix(Owner(metas[i]), fs.formal[j].name)
               /\ fs.formal[j].name # metas[i].Key
    /\ \A i \in DOMAIN metas, k \in DOMAIN metas :
           (/\ i < k /\ NoOverrides(metas[i]) /\ NoOverrides(metas[k])
            /\ Owner(metas[i]) # <<>> /\ Owner(metas[k]) # <<>>
            /\ Owner(metas[i]) # Owner(metas[k])) =>
               ~(pc = "panicked" /\ idx = k)

\* binding the X of the second of two named nested records panics: the
\* name X is taken by the X of the first
C5_SecondNestedPanics ==
    /\ pc = "panicked" /\ cfg = ScNested2.cfg /\ idx = 2
    /\ Len(fs.formal) = 1 /\ fs.formal[1].name = <<"X">>
    /\ Owner(metas[1]) = <<"N">> /\ Owner(metas[2]) = <<"M">>

\* ------------------------------------------------------------------------
\* Malformed environment text
\* ------------------------------------------------------------------------

\* whether the environment variable of the field of meta is set to text
\* that does not parse as the type of the field; for a sequence, that has
\* an element which does not parse as the element type
MalformedEnv(meta) ==
    /\ tagENV(meta) \in DOMAIN environ
    /\ IF Target(meta).t.k = "slice"
       THEN /\ Len(TrimSpace(environ[tagENV(meta)])) # 0
            /\ parseElems(Split(environ[tagENV(meta)], ","),
                          Target(meta).t.e[1]).err # "nil"
       ELSE ~Parses(Target(meta).t, environ[tagENV(meta)], 10)

\* the zero default of a flag of the given kind
ZeroOf(kind) ==
    IF kind = "bool" THEN FALSE
    ELSE IF kind = "float64" THEN FloatZero
    ELSE IF kind = "string" THEN <<>>
    ELSE 0

NoCommandLine == osArgs = <<>>

C6_SequenceFailed ==
    /\ pc = "returned" /\ ret.err \notin {"nil", "ErrInvalidConfig"}
    /\ MalformedEnv(metas[idx])
    /\ NoCommandLine

\* ------------------------------------------------------------------------
\* Command-line parse failure
\* ------------------------------------------------------------------------

\* the flags of integer fields that bear the name the failure names
FailedIntFlags(fsv, f) ==
    {j \in DOMAIN fsv.formal :
        fsv.formal[j].name = f.name /\ fsv.formal[j].kind = "int64"}

\* C7 as stated: when the arguments give a non-numeric value to the flag
\* of an integer field, or name an unknown flag, GetConfigFlagSet returns a
\* non-nil error to its caller and the integer field holds the default its
\* flag was seeded with from the environment.
C7_ParseErrorReturned ==
    failure.err \in {"invalid value", "flag provided but not defined"} =>
        /\ pc = "returned" /\ ret.err # "nil"
        /\ \A j \in FailedIntFlags(fs, failure) :
               failure.err = "invalid value" =>
                   BitsAt(order, heap, fs.formal[j].p, 8) = Bits(fs.formal[j].def, 8)

\* C7, amended: FlagSet.Parse ends either at the end of the arguments, and
\* then GetConfigFlagSet returns the flag set and no error, or at its first
\* error, and then the process exits inside Parse (status 0 for -h and
\* -help, 2 otherwise) and nothing is returned to the caller.  An unknown
\* flag leaves memory as it was; a non-numeric value for the flag of an
\* integer field has already stored 0 in the field.
C7_ParseErrorExits ==
    [][(pc = "parse" /\ pc' # "parse") =>
          IF failure'.err = "nil"
          THEN pc' = "returned" /\ ret'.err = "nil" /\ ret'.fs = TRUE
               /\ exitCode' = exitCode
          ELSE /\ pc' = "exited"
               /\ ret' = ret
               /\ exitCode' = (IF failure'.err = "ErrHelp" THEN 0 ELSE 2)
               /\ failure'.err = "flag provided but not defined" => heap' = heap
               /\ failure'.err = "invalid value" =>
                      \A j \in FailedIntFlags(fs', failure') :
                          BitsAt(order, heap', fs'.formal[j].p, 8) = Bits(0, 8)
      ]_vars

\* -num x for an integer field seeded with 7 from the environment: the
\* process has exited with status 2 and the field holds 0
C7_SeedLostOnExit ==
    /\ pc = "exited" /\ exitCode = 2
    /\ failure = [err |-> "invalid value", name |-> <<"n","u","m">>]
    /\ \E j \in FailedIntFlags(fs, failure) :
           /\ fs.formal[j].def = 7
           /\ BitsAt(order, heap, fs.formal[j].p, 8) = Bits(0, 8)
    /\ ret = [fs |-> FALSE, err |-> ""]

\* ------------------------------------------------------------------------
\* Invalid schema
\* ------------------------------------------------------------------------

\* the cfg the caller passes to GetConfigFlagSet is not a pointer, or
\* points to something that is not a struct (what BuildConfig returns
\* always is a pointer to a struct)
InvalidCfg ==
    /\ options = <<>>
    /\ IF cfg.t.k # "ptr" THEN TRUE ELSE cfg.t.e[1].k # "struct"

\* C8: when cfg is not a pointer, or is a pointer to a non-struct,
\* GetConfigFlagSet returns ErrInvalidConfig and a nil flag set in one
\* step that changes no memory, and at no time is a flag registered, an
\* environment variable looked up or a field record made.
C8_InvalidConfigRejected ==
    /\ [](InvalidCfg =>
            /\ fs.formal = <<>> /\ lookups = {} /\ metas = <<>>
            /\ pc \in {"call", "returned"}
            /\ pc = "returned" => ret = [fs |-> FALSE, err |-> "ErrInvalidConfig"])
    /\ [][InvalidCfg => heap' = heap /\ cfg' = cfg /\ pc' = "returned"]_vars

\* a call with a struct passed by value, or a pointer to an integer, has
\* returned ErrInvalidConfig
C8_RejectedCall ==
    /\ InvalidCfg
    /\ pc = "returned" /\ ret.err = "ErrInvalidConfig" /\ ret.fs = FALSE
    /\ environ # <<>> /\ heap # <<>>

\* ------------------------------------------------------------------------
\* Sequence fields
\* ------------------------------------------------------------------------

\* the final raw string of the flag of meta: the command-line value when
\* the flag was given, else the environment value, else empty
FinalRaw(meta) ==
    IF tagCLI(meta) \in DOMAIN fs.actual THEN fs.actual[tagCLI(meta)]
    ELSE IF tagENV(meta) \in DOMAIN environ THEN environ[tagENV(meta)]
    ELSE <<>>

\* the elements C9 gives a sequence of element type t for the raw string
SplitParsed(raw, t) ==
    IF Len(TrimSpace(raw)) = 0 THEN [v |-> <<>>, err |-> "nil"]
    ELSE parseElems(Split(raw, ","), t)

\* C9: when GetConfigFlagSet has returned its flag set, a sequence field
\* holds the elements of the final raw string of its flag (the command-line
\* value when given, else the environment value) split on commas and
\* converted to the element type; a blank raw string gives the empty
\* sequence.
C9_SequencePopulatedAfterParse ==
    (pc = "returned" /\ ret.err = "nil") =>
        \A i \in DOMAIN metas :
            (/\ Target(metas[i]).t.k = "slice"
             /\ Target(metas[i]).t.e[1].k # "uint8"
             /\ SplitParsed(FinalRaw(metas[i]), Target(metas[i]).t.e[1]).err = "nil") =>
                /\ SliceAt(heap, Target(metas[i]).loc).ok
                /\ SliceAt(heap, Target(metas[i]).loc).v =
                       SplitParsed(FinalRaw(metas[i]), Target(metas[i]).t.e[1]).v

\* -L 4,5 over L=1,2,3: the call has returned and the words of the
\* sequence field are a string header for "4,5"
C9_StringHeaderInSlice ==
    /\ pc = "returned" /\ ret.err = "nil"
    /\ \E i \in DOMAIN metas :
           /\ metas[i].Field.t.k = "slice"
           /\ tagENV(metas[i]) \in DOMAIN environ
           /\ environ[tagENV(metas[i])] = <<"1", ",", "2", ",", "3">>
           /\ FinalRaw(metas[i]) = <<"4", ",", "5">>
           /\ ~SliceAt(heap, metas[i].Field.loc).ok
           /\ StringAt(heap, metas[i].Field.loc).s = <<"4", ",", "5">>

\* C10: a byte-sequence field holds exactly the bytes of its raw string,
\* unsplit and unparsed, once it is bound (and until a command-line value
\* replaces the raw string), and binding it returns no error whatever the
\* raw string.
C10_ByteSequenceUnsplit ==
    \A i \in DOMAIN metas :
        (/\ Target(metas[i]).t.k = "slice"
         /\ Target(metas[i]).t.e[1].k = "uint8"
         /\ Target(metas[i]).t.e[1].caps = {}) =>
            /\ ~(pc = "returned" /\ idx = i /\ ret.err # "nil")
            /\ (Binding /\ i < idx /\ tagCLI(metas[i]) \notin DOMAIN fs.actual) =>
                   /\ SliceAt(heap, Target(metas[i]).loc).ok
                   /\ SliceAt(heap, Target(metas[i]).loc).v = Bytes(FinalRaw(metas[i]))

\* the raw string "1,2" of a byte-sequence field gave the two bytes 1, 2
C10_BytesSplitAndParsed ==
    \E i \in DOMAIN metas :
        /\ Binding /\ i < idx
        /\ metas[i].Field.t.k = "slice" /\ metas[i].Field.t.e[1].k = "uint8"
        /\ FinalRaw(metas[i]) = <<"1", ",", "2">>
        /\ SliceAt(heap, metas[i].Field.loc).v = <<1, 2>>

\* ------------------------------------------------------------------------
\* Records with a custom decode capability
\* ------------------------------------------------------------------------

\* the texts delivered to the custom decode routine of the value at loc:
\* parseValue is the only caller of the routines, and parseMeta gives it
\* the elements of a fresh slice only
DecodedAt(h, loc) ==
    IF h[loc.o].kind = "arr" /\ loc.off + 1 \in DOMAIN h[loc.o].v
    THEN {h[loc.o].v[loc.off + 1].decoded}
    ELSE {}

\* whether loc lies in the storage of the field
Within(field, loc) ==
    /\ loc.o = field.loc.o
    /\ loc.off >= field.loc.off
    /\ loc.off < field.loc.off + SizeOf(field.t)

\* C11: a record field with a custom decode capability is a leaf: the
\* walker keeps its descriptor and makes none for its inner fields, the
\* binder registers exactly one flag for it, and when the call has returned
\* its flag set the text given for it by the command line or the
\* environment has been delivered to its decode routine.
C11_DecoderRecordIsLeaf ==
    \A i \in DOMAIN metas :
        (metas[i].Field.t.k = "struct" /\ metas[i].Field.t.caps # {}) =>
            /\ \A k \in DOMAIN metas :
                   Within(metas[i].Field, metas[k].Field.loc) => k = i
            /\ (Binding /\ i < idx) =>
                   Cardinality({j \in DOMAIN fs.formal :
                                   fs.formal[j].p = metas[i].Field.loc}) = 1
            /\ (pc = "returned" /\ ret.err = "nil" /\ FinalRaw(metas[i]) # <<>>) =>
                   FinalRaw(metas[i]) \in DecodedAt(heap, metas[i].Field.loc)

\* the call has returned with T=x in the environment: the record T with a
\* decode routine has no flag and was given no text, while the elements of
\* the sequence L of such records were given theirs
C11_LeafRecordUnbound ==
    /\ pc = "returned" /\ ret.err = "nil"
    /\ \E i \in DOMAIN metas, k \in DOMAIN metas :
           /\ metas[i].Field.t.k = "struct" /\ metas[i].Field.t.caps # {}
           /\ tagENV(metas[i]) \in DOMAIN environ
           /\ tagENV(metas[i]) \notin lookups
           /\ \A j \in DOMAIN fs.formal : fs.formal[j].name # tagCLI(metas[i])
           /\ DecodedAt(heap, metas[i].Field.loc) = {}
           /\ metas[k].Field.t.k = "slice" /\ metas[k].Field.t.e[1].caps # {}
           /\ SliceAt(heap, metas[k].Field.loc).v =
                  <<[decoded |-> <<"a">>], [decoded |-> <<"b">>]>>

\* ------------------------------------------------------------------------
\* One flag per field
\* ------------------------------------------------------------------------

\* the flags registered through a pointer to loc
FlagsAt(loc) == {j \in DOMAIN fs.formal : fs.formal[j].p = loc}

Succeeded == pc = "returned" /\ ret.err = "nil"

S_PASS == <<"P","A","S","S">>

S_true == <<"t","r","u","e">>

S_testit == <<"t","e","s","t","i","t">>

\* PASS=true go run main.go -testint 5 -TEST_STRING testit -testfloat 3.14
ReadmeRun ==
    /\ cfg = ScReadme.cfg
    /\ environ = (S_PASS :> S_true)
    /\ osArgs = <<<<"-","t","e","s","t","i","n","t">>, <<"5">>,
                  <<"-","T","E","S","T","_","S","T","R","I","N","G">>, S_testit,
                  <<"-","t","e","s","t","f","l","o","a","t">>, <<"3",".","1","4">>>>

\* the record holds {TestString:testit TestInt:5 TestFloat:3.14 Pass:true}
ReadmeOutput ==
    /\ Len(metas) = 4
    /\ HoldsText(heap, metas[1].Field, S_testit, 0)
    /\ HoldsText(heap, metas[2].Field, <<"5">>, 0)
    /\ HoldsText(heap, metas[3].Field, <<"3",".","1","4">>, 0)
    /\ HoldsText(heap, metas[4].Field, S_true, 10)

\* C13: with the config record of the README, PASS=true in the environment
\* and the arguments -testint 5 -TEST_STRING testit -testfloat 3.14, the
\* call neither panics nor exits, and when it has returned it has succeeded
\* and the record is {TestString:"testit", TestInt:5, TestFloat:3.14,
\* Pass:true}.
C13_ReadmeEndToEnd ==
    ReadmeRun =>
        /\ pc \notin {"panicked", "exited"}
        /\ pc = "returned" => Succeeded /\ ReadmeOutput

\* the run of the README has returned
C13_ReadmeRunReturned ==
    /\ ReadmeRun /\ pc = "returned"
    /\ DOMAIN fs.actual = {<<"t","e","s","t","i","n","t">>,
                           <<"T","E","S","T","_","S","T","R","I","N","G">>,
                           <<"t","e","s","t","f","l","o","a","t">>}
    /\ S_PASS \in lookups

\* ------------------------------------------------------------------------
\* Env override as flag name
\* ------------------------------------------------------------------------

\* the env override of the field as its tag declares it
DeclaredEnv(meta) == TagGet(meta.Tags, K_envconfig)

\* the field declares an env override and neither a flag nor a display
\* override
EnvOverrideOnly(meta) ==
    /\ DeclaredEnv(meta) # <<>>
    /\ TagGet(meta.Tags, K_envcli) = <<>>
    /\ TagGet(meta.Tags, K_json) = <<>>

\* C14 as stated: the flag of a field that declares the env override E and
\* no flag or display override is named E as declared, in any letter case.
C14_EnvOverrideIsFlagName ==
    \A i \in DOMAIN metas :
        (Registers(metas[i]) /\ EnvOverrideOnly(metas[i])) =>
            \A j \in FlagsAt(Target(metas[i]).loc) :
                fs.formal[j].name = DeclaredEnv(metas[i])

\* C14, amended: the flag of a field that declares the env override E and
\* no flag or display override is named E upper-cased, which is also the
\* variable looked up; it is E as declared exactly when E holds no
\* lower-case letter.
C14_UpperCasedEnvOverrideIsFlagName ==
    \A i \in DOMAIN metas :
        (Registers(metas[i]) /\ EnvOverrideOnly(metas[i])) =>
            \A j \in FlagsAt(Target(metas[i]).loc) :
                /\ fs.formal[j].name = ToUpper(DeclaredEnv(metas[i]))
                /\ fs.formal[j].name \in lookups
                /\ fs.formal[j].name = DeclaredEnv(metas[i])
                       <=> \A n \in DOMAIN DeclaredEnv(metas[i]) :
                               ~IsLower(DeclaredEnv(metas[i])[n])

\* the field with envconfig:"lo wer" has the flag "LO WER"
C14_LowerCaseOverrideBound ==
    \E i \in DOMAIN metas :
        /\ EnvOverrideOnly(metas[i])
        /\ DeclaredEnv(metas[i]) = <<"l","o"," ","w","e","r">>
        /\ \E j \in FlagsAt(Target(metas[i]).loc) :
               fs.formal[j].name = <<"L","O"," ","W","E","R">>

\* ------------------------------------------------------------------------
\* Flattening
\* ------------------------------------------------------------------------

\* the type behind the pointers of t
RECURSIVE Pointee(_)
Pointee(t) == IF t.k = "ptr" THEN Pointee(t.e[1]) ELSE t

\* the names of the settable leaf fields of the record type st from field
\* i on, depth first in declaration order: an exported field that is, or
\* points to, a record without a decode routine stands for its own leaves
RECURSIVE LeafNames(_, _)
LeafNames(st, i) ==
    IF i > Len(st.fs) THEN <<>>
    ELSE LET ft == st.fs[i]
             own == IF ft.name = <<>> \/ ~IsUpper(ft.name[1]) THEN <<>>
                    ELSE IF Pointee(ft.t).k = "struct" /\ Pointee(ft.t).caps = {}
                    THEN LeafNames(Pointee(ft.t), 1)
                    ELSE <<ft.name>>
         IN  own \o LeafNames(st, i + 1)

\* the walker has returned descriptors
Walked == idx >= 1

\* the field of meta is a field of an anonymous embedded record of the
\* record cfg points to
EmbeddedChild(meta) ==
    \E n \in DOMAIN cfg.t.e[1].fs :
        /\ cfg.t.e[1].fs[n].anon /\ cfg.t.e[1].fs[n].t.k = "struct"
        /\ meta.Field.loc.o = 1
        /\ \E c \in DOMAIN cfg.t.e[1].fs[n].t.fs :
               /\ cfg.t.e[1].fs[n].t.fs[c].name = meta.Name
               /\ meta.Field.loc.off =
                      Offsets(cfg.t.e[1])[n] + Offsets(cfg.t.e[1].fs[n].t)[c]

\* C15: the descriptors the walker returns are the settable leaf fields
\* depth first in declaration order, the children of a recursed record
\* standing where the record was declared; the descriptors of the fields
\* inside the record cfg points to lie at increasing addresses; and a field
\* with no overrides of an anonymous embedded record has a flag named by
\* its bare upper-cased name, "X" for a field X.
C15_FlatteningPreservesOrder ==
    Walked =>
        /\ [i \in DOMAIN metas |-> metas[i].Name] = LeafNames(cfg.t.e[1], 1)
        /\ \A i \in DOMAIN metas, k \in DOMAIN metas :
               (i < k /\ metas[i].Field.loc.o = 1 /\ metas[k].Field.loc.o = 1) =>
                   metas[i].Field.loc.off < metas[k].Field.loc.off
        /\ \A i \in DOMAIN metas :
               (/\ EmbeddedChild(metas[i]) /\ NoOverrides(metas[i])
                /\ Registers(metas[i])) =>
                   \A j \in FlagsAt(Target(metas[i]).loc) :
                       /\ fs.formal[j].name = ToUpper(metas[i].Name)
                       /\ metas[i].Name = <<"X">> => fs.formal[j].name = <<"X">>

\* struct{ Base; Y int } with Base struct{ X int; Deep struct{ W int } }:
\* the descriptors are X, W, Y and the flag of X is named "X"
C15_EmbeddedFlattened ==
    /\ Walked
    /\ [i \in DOMAIN metas |-> metas[i].Name] = << <<"X">>, <<"W">>, <<"Y">> >>
    /\ EmbeddedChild(metas[1])
    /\ \E j \in FlagsAt(metas[1].Field.loc) : fs.formal[j].name = <<"X">>

\* ------------------------------------------------------------------------
\* The grammar of the environment and of the command line
\* ------------------------------------------------------------------------

\* what the lookupEnvOr... call of the field of meta makes of text
EnvParse(meta, text) ==
    LET t == Target(meta).t
    IN  IF t.k = "bool" THEN ParseBool(text)
        ELSE IF t.k \in IntKinds
        THEN IF meta.Field.t.k = "int64" /\ IsDuration(t) THEN ParseDuration(text)
             ELSE ParseInt(text, 10, 64)
        ELSE IF t.k \in UintKinds
        THEN ParseUint(text, 10, IF t.k \in {"uint", "uint64"} THEN 64 ELSE BitsOf(t))
        ELSE IF t.k \in {"float32", "float64"} THEN ParseFloat(text, BitsOf(t))
        ELSE [v |-> text, err |-> "nil"]

\* the text FlagSet.Parse failed on, given as the argument after the flag
FailedText == osArgs[Len(osArgs) - Len(fs.args)]

\* Parse failed on the value of the flag of meta, given as "-name value"
FailedOn(meta) ==
    /\ pc = "exited" /\ failure.err = "invalid value"
    /\ failure.name = tagCLI(meta)
    /\ Len(osArgs) - Len(fs.args) >= 2
    /\ osArgs[Len(osArgs) - Len(fs.args) - 1] = <<"-">> \o tagCLI(meta)

\* C16: the command line reads a text as the environment does.  A text
\* the environment lookup of a scalar field accepts is not refused as the
\* value of its flag; and when the call has succeeded with the flag of a
\* 64-bit integer field given and its variable unset, the environment
\* lookup accepts the text of the flag and the field holds the value the
\* lookup gives for it.
C16_SameGrammar ==
    \A i \in DOMAIN metas :
        (Registers(metas[i]) /\ Target(metas[i]).t.k \in ScalarKinds) =>
            /\ FailedOn(metas[i]) => EnvParse(metas[i], FailedText).err # "nil"
            /\ (/\ Succeeded
                /\ Target(metas[i]).t.k \in {"int", "int64", "uint", "uint64"}
                /\ tagCLI(metas[i]) \in DOMAIN fs.actual
                /\ tagENV(metas[i]) \notin DOMAIN environ) =>
                   /\ EnvParse(metas[i], fs.actual[tagCLI(metas[i])]).err = "nil"
                   /\ FieldBits(heap, Target(metas[i])) =
                          Bits(EnvParse(metas[i], fs.actual[tagCLI(metas[i])]).v, 8)

\* -D 2ms for a time.Duration field: the process has exited on a text the
\* environment lookup reads as two milliseconds
C16_DurationRefused ==
    \E i \in DOMAIN metas :
        /\ IsDuration(metas[i].Field.t)
        /\ FailedOn(metas[i])
        /\ FailedText = <<"2","m","s">>
        /\ EnvParse(metas[i], FailedText) = [v |-> 2000000, err |-> "nil"]
        /\ exitCode = 2

\* ------------------------------------------------------------------------
\* Records built by BuildConfig
\* ------------------------------------------------------------------------

\* C17: BuildConfig returns a pointer to a zero record whose fields have
\* the names and the types of the defaults of the options; the walker
\* finds one field per option, with the flag name and the environment name
\* of the option; and after a successful GetConfigFlagSet every accessor
\* (GetBool, GetInt64, GetFloat64, GetString read the field by name, with
\* the width of its type) returns the command-line value if given, else the
\* environment value if it parses, else zero.
C17_BuiltRecordResolves ==
    options # <<>> =>
        /\ pc = "call" =>
               /\ cfg.t.k = "ptr" /\ cfg.t.e[1].k = "struct" /\ ~cfg.nil
               /\ Len(cfg.t.e[1].fs) = Len(options)
               /\ Len(heap) = 1
               /\ \A a \in DOMAIN heap[1].b : heap[1].b[a] = 0
        /\ Walked =>
               /\ Len(metas) = Len(options)
               /\ \A i \in DOMAIN metas :
                      /\ metas[i].Name = options[i].name
                      /\ metas[i].Field.t.k = options[i].dv
                      /\ tagCLI(metas[i]) = BuiltOptions(options)[i].cliName
                      /\ tagENV(metas[i]) = ToUpper(BuiltOptions(options)[i].envName)
        /\ Succeeded => \A i \in DOMAIN metas : FieldResolved(metas[i])

\* a built record resolved with one field from the command line and
\* another from the environment
C17_BuiltResolved ==
    /\ options # <<>> /\ Succeeded
    /\ \E i \in DOMAIN metas, k \in DOMAIN metas :
           /\ tagCLI(metas[i]) \in DOMAIN fs.actual
           /\ tagCLI(metas[k]) \notin DOMAIN fs.actual
           /\ tagENV(metas[k]) \in DOMAIN environ
           /\ metas[k].Field.t.k = "string"
           /\ StringAt(heap, metas[k].Field.loc).s = environ[tagENV(metas[k])]
           /\ environ[tagENV(metas[k])] # <<>>

\* ------------------------------------------------------------------------
\* Frame of a binding
\* ------------------------------------------------------------------------

\* the bytes of the own storage of field i, in memory order
FieldStore(h, i) == Load(h, metas[i].Field.loc, SizeOf(metas[i].Field.t))

\* C18: a step changes the storage of one field only.  Seeding the flag
\* of the field the binder is at changes the storage of no field bound
\* before it, and a step of argument parsing, which applies one
\* command-line value, changes the storage of at most one field.
C18_FrameEffect ==
    [][/\ (pc = "bind" /\ idx <= Len(metas)) =>
              \A i \in DOMAIN metas :
                  i < idx => FieldStore(heap', i) = FieldStore(heap, i)
       /\ pc = "parse" =>
              Cardinality({i \in DOMAIN metas :
                              FieldStore(heap', i) # FieldStore(heap, i)}) <= 1
      ]_vars

\* struct{ A int8; B int8; C int32 } with B=7 and -A 1: B was seeded with
\* 7 and reads 0 after the value of A was stored
C18_NeighbourZeroed ==
    /\ cfg = ScNarrow.cfg /\ Succeeded /\ order = "little"
    /\ environ = (<<"B">> :> <<"7">>)
    /\ osArgs = << <<"-","A">>, <<"1">> >>
    /\ FieldStore(heap, 1) = <<1>>
    /\ FieldStore(heap, 2) = <<0>>

====
